---- MODULE Spec2Model ----
(***************************************************************************)
(* pyTermTk terminal widget: TTkTerminalView                               *)
(*   src/TermTk/TTkWidgets/TTkTerminal/terminalview.py                     *)
(*                                                                         *)
(* The model has two threads.  The UI thread calls runShell, resizeEvent   *)
(* and _quit.  The reader thread runs loop(), which pulls chunks out of    *)
(* _inputGenerator() (select over the PTY, the quit pipe and the resize    *)
(* pipe) and decodes them fragment by fragment.  The shell is the          *)
(* environment: it writes a stream of characters to the PTY in pieces of   *)
(* arbitrary size.                                                         *)
(*                                                                         *)
(* A character is a one-symbol string; ESC, BEL and the backslash have     *)
(* names.  A chunk, a slice and every accumulator string is a sequence of  *)
(* characters.                                                             *)
(***************************************************************************)
EXTENDS Integers, Sequences, FiniteSets, TLC

ESC == "ESC"
BEL == "BEL"
BSL == "BSL"
GRAVE == "GRAVE"
SYN == "SYN"

None == <<"None">>

Digits == {"0", "1", "2", "3", "4", "5", "6", "7", "8", "9"}

DigitVal(c) ==
    CASE c = "0" -> 0 [] c = "1" -> 1 [] c = "2" -> 2 [] c = "3" -> 3
      [] c = "4" -> 4 [] c = "5" -> 5 [] c = "6" -> 6 [] c = "7" -> 7
      [] c = "8" -> 8 [] c = "9" -> 9

\* The letters of the model's alphabet: the members of [@^`A-Za-z] that occur.
Letters == {"a", "b", "c", "h", "l", "m", "n", "t", "x",
            "A", "D", "E", "H", "J", "K", "M", "P", "R"}

----------------------------------------------------------------------------
(* Strings *)

\* s[i:] of Python, i counted from 0
Drop(s, i) == IF i >= Len(s) THEN <<>> ELSE SubSeq(s, i + 1, Len(s))

\* s[:i] of Python
Take(s, i) == IF i <= 0 THEN <<>> ELSE SubSeq(s, 1, IF i > Len(s) THEN Len(s) ELSE i)

\* str.index(c) + 1, or 0 when c does not occur
IndexOf(s, c) ==
    IF \E i \in 1..Len(s) : s[i] = c
    THEN CHOOSE i \in 1..Len(s) : s[i] = c /\ \A j \in 1..(i - 1) : s[j] # c
    ELSE 0

\* str.split(sep): always at least one element
RECURSIVE Split(_, _)
Split(s, sep) ==
    LET i == IndexOf(s, sep)
    IN  IF i = 0 THEN <<s>>
        ELSE <<Take(s, i - 1)>> \o Split(Drop(s, i), sep)

\* the number of characters of class cls at the start of s
RECURSIVE Span(_, _)
Span(s, cls) ==
    IF s # <<>> /\ Head(s) \in cls THEN 1 + Span(Tail(s), cls) ELSE 0

\* int(s) for a non-empty digit string
RECURSIVE ToInt(_)
ToInt(s) ==
    IF s = <<>> THEN 0 ELSE 10 * ToInt(Take(s, Len(s) - 1)) + DigitVal(s[Len(s)])

\* str(n) for n >= 0
RECURSIVE ToStr(_)
ToStr(n) ==
    IF n < 10 THEN <<CHOOSE c \in Digits : DigitVal(c) = n>>
    ELSE ToStr(n \div 10) \o <<CHOOSE c \in Digits : DigitVal(c) = n % 10>>

\* what is written to the PTY by one write(): text, the characters; raw, the
\* bytes appended to them as numbers
Written(text, raw) == [text |-> text, raw |-> raw]

\* bytes that are not ASCII: XC3 starts a character of two bytes, XA9 is a
\* continuation byte; XC3 XA9 is the character EACUTE
XC3 == "xC3"
XA9 == "xA9"
EACUTE == "eacute"

\* out.decode() succeeds: every XC3 is followed by XA9, every XA9 follows
\* an XC3
RECURSIVE decode_ok(_)
decode_ok(b) ==
    IF b = <<>> THEN TRUE
    ELSE IF b[1] = XC3 THEN Len(b) >= 2 /\ b[2] = XA9 /\ decode_ok(Drop(b, 2))
    ELSE IF b[1] = XA9 THEN FALSE
    ELSE decode_ok(Tail(b))

\* a lossy decode that hands the undecodable bytes on as they are
decode_keep(b) == b

\* out.decode('utf-8', 'ignore'): the bytes that do not decode are dropped
RECURSIVE decode_ignore(_)
decode_ignore(b) ==
    IF b = <<>> THEN <<>>
    ELSE IF b[1] = XC3
    THEN IF Len(b) >= 2 /\ b[2] = XA9
         THEN <<EACUTE>> \o decode_ignore(Drop(b, 2))
         ELSE decode_ignore(Tail(b))
    ELSE IF b[1] = XA9 THEN decode_ignore(Tail(b))
    ELSE <<b[1]>> \o decode_ignore(Tail(b))

\* out.decode() of valid bytes
RECURSIVE decode(_)
decode(b) ==
    IF b = <<>> THEN <<>>
    ELSE IF b[1] = XC3 THEN <<EACUTE>> \o decode(Drop(b, 2))
    ELSE <<b[1]>> \o decode(Tail(b))

\* the text _inputGenerator() yields for the bytes it has read: out.decode(),
\* and out.decode('utf-8', 'ignore') when that raises
Decoded(b) == IF decode_ok(b) THEN decode(b) ELSE decode_ignore(b)

----------------------------------------------------------------------------
(* The regular expressions of the decoder *)

\* re_DEC_SET_RST = '^\[(\??)(\d+)([lh])'
re_DEC_SET_RST(slice) ==
    LET qm == Len(slice) >= 2 /\ slice[1] = "[" /\ slice[2] = "?"
        st == IF qm THEN 2 ELSE 1
        n  == Span(Drop(slice, st), Digits)
        ok == /\ slice # <<>> /\ slice[1] = "["
              /\ n >= 1
              /\ Len(slice) >= st + n + 1
              /\ slice[st + n + 1] \in {"l", "h"}
    IN  IF ok
        THEN [ok |-> TRUE, qm |-> qm, ps |-> ToInt(SubSeq(slice, st + 1, st + n)),
              sr |-> (slice[st + n + 1] = "h"), en |-> st + n + 1]
        ELSE [ok |-> FALSE, qm |-> FALSE, ps |-> 0, sr |-> FALSE, en |-> 0]

\* re_CURSOR = '^\[((\d*)(;(\d*))*)([@^`A-Za-z])'
\* Every string of digits and semicolons matches the parameter part, so the
\* match takes the longest such run and needs a letter right after it.
\* g1 is group(1), g2 group(2), g4 group(4) (the digits after the last
\* semicolon; empty when there is none), fn group(5).
re_CURSOR(slice) ==
    LET n   == Span(Drop(slice, 1), Digits \cup {";"})
        ok  == /\ slice # <<>> /\ slice[1] = "["
               /\ Len(slice) >= n + 2
               /\ slice[n + 2] \in Letters
        g1  == SubSeq(slice, 2, n + 1)
        prm == Split(g1, ";")
    IN  IF ok
        THEN [ok |-> TRUE, g1 |-> g1, g2 |-> prm[1],
              g4 |-> IF Len(prm) > 1 THEN prm[Len(prm)] ELSE <<>>,
              fn |-> slice[n + 2], en |-> n + 2]
        ELSE [ok |-> FALSE, g1 |-> <<>>, g2 |-> <<>>, g4 |-> <<>>, fn |-> "", en |-> 0]

\* re_OSC_ps_Pt = '^(\d*);(.*)$': the dot matches no newline, and $ matches
\* at the end or before a newline that ends the string
re_OSC_ps_Pt(s) ==
    LET n    == Span(s, Digits)
        rest == Drop(s, n + 1)
        nl   == IndexOf(rest, "\n")
        ok   == Len(s) >= n + 1 /\ s[n + 1] = ";" /\ nl \in {0, Len(rest)}
    IN  IF ok
        THEN [ok |-> TRUE, ps |-> Take(s, n),
              pt |-> IF nl = 0 THEN rest ELSE Take(rest, nl - 1)]
        ELSE [ok |-> FALSE, ps |-> <<>>, pt |-> <<>>]

----------------------------------------------------------------------------
(* Colors and SGR *)

\* TTkColor(fg, bg, mod, clean); mod is the set of attribute bits that are on
TTkColor(fg, bg, mod, clean) == [fg |-> fg, bg |-> bg, mod |-> mod, clean |-> clean]

\* TTkColor.RST
RST == TTkColor(None, None, {}, TRUE)

\* TTkTermColor.SGR_SET: SGR code -> attribute bit
SGR_SET(s) ==
    CASE s = 1 -> "BOLD" [] s = 3 -> "ITALIC" [] s = 4 -> "UNDERLINE"
      [] s = 9 -> "STRIKETROUGH" [] s = 5 -> "BLINKING" [] OTHER -> ""

\* TTkTermColor.SGR_RST: SGR code -> the attribute bit its mask clears
SGR_RST(s) ==
    CASE s = 22 -> "BOLD" [] s = 23 -> "ITALIC" [] s = 24 -> "UNDERLINE"
      [] s = 29 -> "STRIKETROUGH" [] s = 25 -> "BLINKING" [] OTHER -> ""

ansiMap16(s) == <<"ansiMap16", s>>

ansiMap256(n) == IF n <= 255 THEN <<"ansiMap256", n>> ELSE None

\* the exception raised by k times int(values.pop(0)), or "": IndexError when
\* the list runs out, ValueError on '', whichever comes first
PopExc(values, k) ==
    IF \E i \in 1..k : i > Len(values) \/ values[i] = <<>>
    THEN IF (CHOOSE i \in 1..k : /\ (i > Len(values) \/ values[i] = <<>>)
                                 /\ \A j \in 1..(i - 1) :
                                        j <= Len(values) /\ values[j] # <<>>)
            > Len(values)
         THEN "IndexError" ELSE "ValueError"
    ELSE ""

\* an extended form that takes its selector only
ExtendedLenSelector(values) == 1

\* how many parameters the extended color form at the head of values takes:
\* t, then n when t is 5, then r, g, b when t is 2
ExtendedLen(values) ==
    IF PopExc(values, 1) # "" THEN 1
    ELSE IF ToInt(values[1]) = 5 THEN 2
    ELSE IF ToInt(values[1]) = 2 THEN 4
    ELSE 1

\* the color the extended form at the head of values gives; old when t is
\* neither 5 nor 2
ExtendedColor(values, old) ==
    IF PopExc(values, ExtendedLen(values)) # "" THEN old
    ELSE IF ToInt(values[1]) = 5 THEN ansiMap256(ToInt(values[2]))
    ELSE IF ToInt(values[1]) = 2
    THEN <<"rgb", ToInt(values[2]), ToInt(values[3]), ToInt(values[4])>>
    ELSE old

\* a turn of the while loop that starts from an empty attribute mask
SGRStepForgetful(values, c) ==
    [c |-> [c EXCEPT !.mod = {}, !.exc = PopExc(values, 1)], rest |-> Tail(values)]

\* one turn of the while loop over the SGR parameters: c carries fg, bg, mod,
\* clean and the exception raised, if any; rest is what is left of values
SGRStep(values, c) ==
    LET s    == ToInt(values[1])
        rest == Tail(values)
    IN  IF PopExc(values, 1) # ""
        THEN [c |-> [c EXCEPT !.exc = PopExc(values, 1)], rest |-> rest]
        ELSE IF s = 0
        THEN [c |-> [c EXCEPT !.fg = None, !.bg = None, !.mod = {}, !.clean = TRUE],
              rest |-> rest]
        ELSE IF s = 39 THEN [c |-> [c EXCEPT !.fg = None], rest |-> rest]
        ELSE IF s = 49 THEN [c |-> [c EXCEPT !.bg = None], rest |-> rest]
        ELSE IF (30 <= s /\ s <= 37) \/ (90 <= s /\ s <= 97)
        THEN [c |-> [c EXCEPT !.fg = ansiMap16(s)], rest |-> rest]
        ELSE IF (40 <= s /\ s <= 47) \/ (100 <= s /\ s <= 107)
        THEN [c |-> [c EXCEPT !.bg = ansiMap16(s)], rest |-> rest]
        ELSE IF s = 38
        THEN [c |-> [c EXCEPT !.fg = ExtendedColor(rest, c.fg),
                              !.exc = PopExc(rest, ExtendedLen(rest))],
              rest |-> Drop(rest, ExtendedLen(rest))]
        ELSE IF s = 48
        THEN [c |-> [c EXCEPT !.bg = ExtendedColor(rest, c.bg),
                              !.exc = PopExc(rest, ExtendedLen(rest))],
              rest |-> Drop(rest, ExtendedLen(rest))]
        ELSE IF SGR_SET(s) # ""
        THEN [c |-> [c EXCEPT !.mod = @ \cup {SGR_SET(s)}], rest |-> rest]
        ELSE IF SGR_RST(s) # ""
        THEN [c |-> [c EXCEPT !.mod = @ \ {SGR_RST(s)}], rest |-> rest]
        ELSE [c |-> c, rest |-> rest]

\* the while loop over the SGR parameters, until the list is empty or an
\* exception leaves it
RECURSIVE SGRValues(_, _)
SGRValues(values, c) ==
    IF values = <<>> \/ c.exc # "" THEN c
    ELSE LET r == SGRStep(values, c) IN SGRValues(r.rest, r.c)

\* an SGR branch in which 39 and 49 reset the whole color, as 0 does
SGRColorDefaultsReset(g1, color) ==
    IF g1 \in {<<"0">>, <<>>, <<"3", "9">>, <<"4", "9">>}
    THEN [color |-> RST, exc |-> ""]
    ELSE LET c == SGRValues(Split(g1, ";"),
                            [fg |-> color.fg, bg |-> color.bg, mod |-> color.mod,
                             clean |-> FALSE, exc |-> ""])
         IN  [color |-> TTkColor(c.fg, c.bg, c.mod, c.clean), exc |-> c.exc]

\* an SGR branch without the shortcut for '0' and '': every parameter string
\* goes through the while loop
SGRColorAlwaysParsed(g1, color) ==
    LET c == SGRValues(Split(g1, ";"),
                       [fg |-> color.fg, bg |-> color.bg, mod |-> color.mod,
                        clean |-> FALSE, exc |-> ""])
    IN  [color |-> TTkColor(c.fg, c.bg, c.mod, c.clean), exc |-> c.exc]

\* the color an SGR sequence with parameter string g1 yields, from the current
\* buffer's pending color; exc is the exception raised on the way, if any
SGRColor(g1, color) ==
    IF g1 \in {<<"0">>, <<>>}
    THEN [color |-> RST, exc |-> ""]
    ELSE LET c == SGRValues(Split(g1, ";"),
                            [fg |-> color.fg, bg |-> color.bg, mod |-> color.mod,
                             clean |-> FALSE, exc |-> ""])
         IN  [color |-> TTkColor(c.fg, c.bg, c.mod, c.clean), exc |-> c.exc]

----------------------------------------------------------------------------
(* The screen buffers (_TTkTerminalScreen)                                 *)
(*                                                                         *)
(* A buffer is kept as the ordered log of what was applied to it: one      *)
(* entry per character pushed (with the insert flag and the pending color  *)
(* it was written under) and one entry per control function.  Its cursor   *)
(* and its cells are a function of that log and of its dimensions.         *)

Entry(k, c, y, x, irm, color) ==
    [k |-> k, c |-> c, y |-> y, x |-> x, irm |-> irm, color |-> color]

\* _TTkTerminalScreen()
NewScreen == [log |-> <<>>, color |-> RST, w |-> 0, h |-> 0]

\* _TTkTerminalScreen.resize(w, h)
ScreenResize(scr, w, h) == [scr EXCEPT !.w = w, !.h = h]

\* _TTkTerminalScreen.pushLine(text, irm)
pushLine(scr, text, irm) ==
    [scr EXCEPT !.log = @ \o [i \in 1..Len(text) |->
                                 Entry("text", text[i], 0, 0, irm, scr.color)]]

\* _TTkTerminalScreen.setColor(color)
setColor(scr, color) == [scr EXCEPT !.color = color]

\* the final bytes _TTkTerminalScreen._CSI_MAP has a handler for
ScreenCSI == {"A", "D", "E", "H", "J", "K", "M", "P"}

\* _TTkTerminalScreen._CSI_MAP[fn](screen, y, x)
ScreenCSIApply(scr, fn, y, x) ==
    [scr EXCEPT !.log = Append(@, Entry("CSI", fn, y, x, FALSE, RST))]

\* the codes _TTkTerminalScreen._C1_MAP has a handler for
ScreenC1 == {"D", "E", "H", "M"}

\* _TTkTerminalScreen._C1_MAP[c](screen)
ScreenC1Apply(scr, c) ==
    [scr EXCEPT !.log = Append(@, Entry("C1", c, 0, 0, FALSE, RST))]

\* where one entry of the log leaves the cursor <<x, y>>: a character moves
\* it one column to the right, cursor position (H) puts it at its row and
\* column, next line (E) at the start of the following row
CursorStep(p, e) ==
    CASE e.k = "text" -> <<p[1] + 1, p[2]>>
      [] e.k = "CSI" /\ e.c = "H" ->
            <<(IF e.x > 1 THEN e.x ELSE 1) - 1, (IF e.y > 1 THEN e.y ELSE 1) - 1>>
      [] e.k = "C1" /\ e.c = "E" -> <<0, p[2] + 1>>
      [] OTHER -> p

RECURSIVE CursorAt(_, _)
CursorAt(log, n) ==
    IF n = 0 THEN <<0, 0>> ELSE CursorStep(CursorAt(log, n - 1), log[n])

\* _TTkTerminalScreen.getCursor(): (x, y), column and row from 0, kept
\* inside the buffer
getCursor(scr) ==
    LET p == CursorAt(scr.log, Len(scr.log))
    IN  <<IF scr.w > 0 /\ p[1] >= scr.w THEN scr.w - 1 ELSE p[1],
          IF scr.h > 0 /\ p[2] >= scr.h THEN scr.h - 1 ELSE p[2]>>

----------------------------------------------------------------------------
(* The decoder state.  A record d carries the fields of the view that      *)
(* loop() reads and writes, and the locals of loop() that live across its  *)
(* iterations.                                                             *)

CurScreen(d) ==
    IF d.screen_current = "normal" THEN d.screen_normal ELSE d.screen_alt

\* an operation on self._screen_current
OnCurrent(d, scr) ==
    IF d.screen_current = "normal"
    THEN [d EXCEPT !.screen_normal = scr]
    ELSE [d EXCEPT !.screen_alt = scr]

\* a pushLine that goes to the normal buffer whichever buffer is current
PushNormal(d, text) ==
    [d EXCEPT !.screen_normal = pushLine(@, text, d.terminal.IRM)]

\* a pushLine on the current buffer that always replaces
PushCurrentReplace(d, text) ==
    OnCurrent(d, pushLine(CurScreen(d), text, FALSE))

\* self._screen_current.pushLine(slice, irm=self._terminal.IRM)
PushCurrent(d, text) ==
    OnCurrent(d, pushLine(CurScreen(d), text, d.terminal.IRM))

\* an exception that leaves loop(): the reader thread ends
Raise(d, e) == [d EXCEPT !.pc = "done", !.exc = e]

\* a _CSI_SM_RM that takes every mode for the insert mode
CSI_SM_RMAnyMode(d, ps, s) == [d EXCEPT !.terminal.IRM = s]

\* _CSI_SM_RM(ps, s)
CSI_SM_RM(d, ps, s) ==
    IF ps = 4 THEN [d EXCEPT !.terminal.IRM = s] ELSE d

\* _CSI_DEC_SET_RST(ps, s), through _CSI_DEC_SET_RST_MAP
CSI_DEC_SET_RST(d, ps, s) ==
    CASE ps = 1    -> [d EXCEPT !.keyboard.flags =
                          IF s THEN @ \cup {"DECCKM"} ELSE @ \ {"DECCKM"}]
      [] ps = 1000 -> [d EXCEPT !.mouse.reportPress = s]
      [] ps = 1002 -> [d EXCEPT !.mouse.reportDrag = s]
      [] ps = 1003 -> [d EXCEPT !.mouse.reportMove = s]
      [] ps = 1006 -> [d EXCEPT !.mouse.sgrMode = s]
      [] ps = 2004 -> [d EXCEPT !.terminal.bracketedMode = s]
      [] ps = 1049 -> [d EXCEPT !.screen_current = IF s THEN "alt" ELSE "normal"]
      [] OTHER     -> d

\* a default map without the entries of J and K
CSI_DefaultOne(fn) == <<1, 1>>

\* _CSI_Default_MAP.get(fn, (1, 1)); -1 stands for None
CSI_Default(fn) == IF fn \in {"J", "K"} THEN <<0, -1>> ELSE <<1, 1>>

\* a _CSI_n_DSR that reports the column before the row
CSI_n_DSRColumnFirst(d, ps) ==
    LET c == getCursor(CurScreen(d))
    IN  IF ps = 6
        THEN [d EXCEPT !.inout.wr = Append(@, Written(
                 <<ESC, "[">> \o ToStr(c[1] + 1) \o <<";">> \o ToStr(c[2] + 1)
                     \o <<"R">>, <<>>))]
        ELSE IF ps = 5
        THEN [d EXCEPT !.inout.wr = Append(@, Written(<<ESC, "[", "0", "n">>, <<>>))]
        ELSE d

\* _CSI_n_DSR(ps, _): x, y = getCursor(), and one write of ESC [ y+1 ; x+1 R
\* or of ESC [ 0 n
CSI_n_DSR(d, ps) ==
    LET c == getCursor(CurScreen(d))
    IN  IF ps = 6
        THEN [d EXCEPT !.inout.wr = Append(@, Written(
                 <<ESC, "[">> \o ToStr(c[2] + 1) \o <<";">> \o ToStr(c[1] + 1)
                     \o <<"R">>, <<>>))]
        ELSE IF ps = 5
        THEN [d EXCEPT !.inout.wr = Append(@, Written(<<ESC, "[", "0", "n">>, <<>>))]
        ELSE d

----------------------------------------------------------------------------
(* loop(): one fragment of a chunk                                         *)

\* an SGR branch that sets the color on the current buffer alone
SliceSGRCurrentOnly(d, slice, m) ==
    LET r  == SGRColor(m.g1, CurScreen(d).color)
        d1 == OnCurrent(d, setColor(CurScreen(d), r.color))
    IN  IF r.exc # "" THEN Raise(d, r.exc)
        ELSE PushCurrent(d1, Drop(slice, m.en))

\* the SGR branch: the new color is computed from the current buffer's
\* pending color and set on both buffers
SliceSGR(d, slice, m) ==
    LET r  == SGRColor(m.g1, CurScreen(d).color)
        d1 == [d EXCEPT !.screen_alt = setColor(@, r.color),
                        !.screen_normal = setColor(@, r.color)]
    IN  IF r.exc # "" THEN Raise(d, r.exc)
        ELSE PushCurrent(d1, Drop(slice, m.en))

\* the generic CSI branch
SliceCSI(d, slice, m) ==
    LET defval == CSI_Default(m.fn)
        y  == IF m.g2 # <<>> THEN ToInt(m.g2) ELSE defval[1]
        x  == IF m.g4 # <<>> THEN ToInt(m.g4) ELSE defval[2]
        d1 == IF m.fn = "n" THEN CSI_n_DSR(d, y)
              ELSE IF m.fn \in ScreenCSI
              THEN OnCurrent(d, ScreenCSIApply(CurScreen(d), m.fn, y, x))
              ELSE d
    IN  PushCurrent(d1, Drop(slice, m.en))

\* a keypad branch in which ESC > clears every keyboard flag
SliceKeypadClearsAll(d, slice) ==
    LET d1 == IF slice[1] = "="
              THEN [d EXCEPT !.keyboard.flags = @ \cup {"DECKPAM"}]
              ELSE [d EXCEPT !.keyboard.flags = {}]
    IN  PushCurrent(d1, Tail(slice))

\* ESC = and ESC >
SliceKeypad(d, slice) ==
    LET d1 == IF slice[1] = "="
              THEN [d EXCEPT !.keyboard.flags = @ \cup {"DECKPAM"}]
              ELSE [d EXCEPT !.keyboard.flags = @ \ {"DECKPAM"}]
    IN  PushCurrent(d1, Tail(slice))

\* __processDCSEscapeGenerator(): the rest of the chunk's fragments are taken
\* from escapeGenerator until one starts with a backslash
RECURSIVE processDCSEscapeGenerator(_)
processDCSEscapeGenerator(d) ==
    IF d.escapeGenerator = <<>>
    THEN [d |-> d, ret |-> FALSE, slice |-> <<>>]
    ELSE LET dcs == Head(d.escapeGenerator)
             d1  == [d EXCEPT !.escapeGenerator = Tail(@)]
         IN  IF dcs = <<>>
             THEN [d |-> Raise(d1, "IndexError"), ret |-> FALSE, slice |-> <<>>]
             ELSE IF dcs[1] = BSL
             THEN [d |-> [d1 EXCEPT !.terminal.DCSstring = <<>>],
                   ret |-> TRUE, slice |-> Tail(dcs)]
             ELSE processDCSEscapeGenerator(
                      [d1 EXCEPT !.terminal.DCSstring = @ \o dcs])

\* the DCS branch; __processDCSInputGenerator() is called without its
\* argument, which is a TypeError
SliceDCS(d, slice) ==
    LET r == processDCSEscapeGenerator([d EXCEPT !.terminal.DCSstring = Tail(slice)])
    IN  IF r.d.exc # "" THEN r.d
        ELSE IF ~r.ret THEN Raise(r.d, "TypeError")
        ELSE PushCurrent(r.d, r.slice)

\* an OSC branch that emits the title whatever Ps is
SliceOSCClosedAnyPs(d, oscString, slice) ==
    LET m  == re_OSC_ps_Pt(oscString)
        d1 == [d EXCEPT !.oscString = oscString]
    IN  IF m.ok /\ m.ps = <<>> THEN Raise(d1, "ValueError")
        ELSE IF m.ok
        THEN PushCurrent([d1 EXCEPT !.titleChanged = Append(@, m.pt)], slice)
        ELSE PushCurrent(d1, slice)

\* the end of the OSC branch, once the string is closed
SliceOSCClosed(d, oscString, slice) ==
    LET m  == re_OSC_ps_Pt(oscString)
        d1 == [d EXCEPT !.oscString = oscString]
    IN  IF m.ok /\ m.ps = <<>> THEN Raise(d1, "ValueError")
        ELSE IF m.ok /\ ToInt(m.ps) \in {0, 1, 2}
        THEN PushCurrent([d1 EXCEPT !.titleChanged = Append(@, m.pt)], slice)
        ELSE PushCurrent(d1, slice)

\* the OSC branch: __checkOSCBell, __processOSCEscapeGenerator and
\* __processOSCInputGenerator
SliceOSC(d, slice0) ==
    LET slice == Tail(slice0)
        bel   == IndexOf(slice, BEL)
        osc   == Head(d.escapeGenerator)
        d1    == [d EXCEPT !.escapeGenerator = Tail(@), !.oscString = slice]
    IN  IF bel > 0
        THEN SliceOSCClosed(d, Take(slice, bel - 1), Drop(slice, bel))
        ELSE IF d.escapeGenerator = <<>>
        THEN \* wait for the next chunk inside __processOSCInputGenerator
             [d EXCEPT !.oscString = slice, !.pc = "select", !.caller = "osc"]
        ELSE IF osc = <<>> THEN Raise(d1, "IndexError")
        ELSE IF osc[1] = BSL THEN SliceOSCClosed(d1, slice, Tail(osc))
        ELSE \* ret, _slice = __checkOSCBell(...) unpacks three values into two
             Raise(d1, "ValueError")

\* the C1 branch
SliceC1(d, slice) ==
    IF slice[1] \in ScreenC1
    THEN PushCurrent(OnCurrent(d, ScreenC1Apply(CurScreen(d), slice[1])), Tail(slice))
    ELSE Raise(d, "TypeError")

\* the body of "for slice in escapeGenerator"
ProcessSlice(d) ==
    LET slice == Head(d.escapeGenerator)
        d0  == [d EXCEPT !.escapeGenerator = Tail(@), !.leftUnhandled = <<>>]
        dec == re_DEC_SET_RST(slice)
        m   == re_CURSOR(slice)
    IN  IF dec.ok
        THEN PushCurrent(IF dec.qm THEN CSI_DEC_SET_RST(d0, dec.ps, dec.sr)
                                   ELSE CSI_SM_RM(d0, dec.ps, dec.sr),
                         Drop(slice, dec.en))
        ELSE IF m.ok /\ m.fn = "m" THEN SliceSGR(d0, slice, m)
        ELSE IF m.ok THEN SliceCSI(d0, slice, m)
        ELSE IF slice # <<>> /\ slice[1] \in {"=", ">"} THEN SliceKeypad(d0, slice)
        ELSE IF slice # <<>> /\ slice[1] = "P" THEN SliceDCS(d0, slice)
        ELSE IF slice # <<>> /\ slice[1] = "]" THEN SliceOSC(d0, slice)
        ELSE IF slice # <<>> /\ slice[1] \in {"D", "E", "H", "M", "O", "P", "V", "W", "X", "Z"}
        THEN SliceC1(d0, slice)
        ELSE [d0 EXCEPT !.leftUnhandled = <<ESC>> \o slice]

\* a loop() that does not prepend what the last chunk left unhandled
StartChunkForgetful(d, out) ==
    LET sout == Split(out, ESC)
        d1   == IF sout[1] # <<>> THEN PushCurrent(d, sout[1]) ELSE d
    IN  [d1 EXCEPT !.escapeGenerator = Tail(sout), !.pc = "slices"]

\* the head of "for out in inputgenerator" in loop(): split, push the text
\* before the first escape
StartChunk(d, out) ==
    LET sout == Split(d.leftUnhandled \o out, ESC)
        d1   == IF sout[1] # <<>> THEN PushCurrent(d, sout[1]) ELSE d
    IN  [d1 EXCEPT !.escapeGenerator = Tail(sout), !.pc = "slices"]

\* the body of "for out in inputgenerator" in __processOSCInputGenerator():
\* its own escapeGenerator is a local nobody reads, and
\* __processOSCEscapeGenerator finds the enclosing one exhausted
OSCInputChunk(d, out) ==
    LET sout == Split(out, ESC)
    IN  [d EXCEPT !.terminal.DCSstring = @ \o sout[1], !.pc = "select"]

----------------------------------------------------------------------------
(* Bounds and inputs *)

\* how many times resizeEvent writes to the resize pipe after runShell
MaxResize == 2

\* how many times _quit writes to the quit pipe
MaxQuit == 2

\* how many times runShell is called
MaxRuns == 2

\* how many tokens the shell's output is made of, in the decoder runs
MaxTokens == 2

\* how many input events (mouse, key, paste) the widget is given
MaxEvents == 1

\* how many mode sequences the shell prints, in the input runs
MaxModes == 3

\* the widget sizes (w, h)
Sizes == {<<80, 24>>, <<40, 12>>}

InitialSize == <<80, 24>>

\* what the shell prints: text, and complete or malformed control sequences
Tokens == {
    <<"a">>,
    <<"b">>,
    <<ESC, "[", "4", "h">>,                         \* SM 4: insert mode
    <<ESC, "[", "?", "1", "0", "4", "9", "h">>,     \* alternate screen on
    <<ESC, "[", "?", "1", "0", "4", "9", "l">>,     \* alternate screen off
    <<ESC, "[", "1", ";", "3", "1", "m">>,          \* SGR bold, red
    <<ESC, "[", "1", ";", "m">>,                    \* SGR, empty parameter
    <<ESC, "[", "2", "J">>,                         \* erase in display
    <<ESC, "[", "6", "n">>,                         \* cursor position report
    <<ESC, "=">>,                                   \* application keypad
    <<ESC, "M">>,                                   \* C1 reverse index
    <<ESC, "P", "x", ESC, BSL>>,                    \* DCS ... ST
    <<ESC, "]", "2", ";", "t", BEL>>,               \* OSC title, BEL
    <<ESC, "]", "0", ";", "t", ESC, BSL>>,          \* OSC title, ST
    <<ESC, "]", ";", "t", BEL>>,                    \* OSC, empty Ps
    <<ESC, "]", "2", ";", ESC, "[", "m", BEL>>,     \* OSC with an ESC inside
    <<ESC, "?">> }                                  \* not a sequence

RECURSIVE Flatten(_)
Flatten(ss) == IF ss = <<>> THEN <<>> ELSE Head(ss) \o Flatten(Tail(ss))

\* the outputs of the decoder runs: up to MaxTokens tokens
DecodeStreams ==
    { Flatten(ts) : ts \in UNION { [1..n -> Tokens] : n \in 1..MaxTokens } }

\* the outputs of the session runs
SessionStreams == {
    <<"a", "b">>,
    <<"a", ESC, "]", "2", ";", "t">>,
    <<ESC, "[", "1", ";", "m", "a">> }

\* SGR sequences: resets, partial updates, and one with a 0 in the middle
SGRTokens == {
    <<ESC, "[", "0", "m">>,
    <<ESC, "[", "m">>,
    <<ESC, "[", "1", ";", "3", "1", "m">>,
    <<ESC, "[", "4", ";", "4", "2", "m">>,
    <<ESC, "[", "2", "4", "m">>,
    <<ESC, "[", "3", "9", "m">>,
    <<ESC, "[", "3", "8", ";", "5", ";", "9", "m">>,
    <<ESC, "[", "1", ";", "0", ";", "3", "1", "m">> }

\* the outputs of the color runs: up to MaxTokens SGR sequences
SGRStreams ==
    { Flatten(ts) : ts \in UNION { [1..n -> SGRTokens] : n \in 1..MaxTokens } }

\* DEC private mode h/l sequence for the mode ps
DECSequence(ps, hl) == <<ESC, "[", "?">> \o ps \o <<hl>>

\* the modes of the input runs: application cursor keys, mouse press, drag,
\* move reporting, SGR mouse mode, bracketed paste
Modes ==
    << <<"1">>, <<"1", "0", "0", "0">>, <<"1", "0", "0", "2">>,
       <<"1", "0", "0", "3">>, <<"1", "0", "0", "6">>, <<"2", "0", "0", "4">> >>

\* the sequences the shell prints in the input runs
ModeTokens ==
    { DECSequence(Modes[i], hl) : i \in DOMAIN Modes, hl \in {"h", "l"} }

\* the modes is of Modes set, in the order of Modes
RECURSIVE SetModes(_)
SetModes(is) ==
    IF is = {} THEN <<>>
    ELSE LET i == CHOOSE j \in is : \A k \in is : j <= k
         IN  DECSequence(Modes[i], "h") \o SetModes(is \ {i})

\* the outputs of the input runs: up to MaxModes modes set, and then possibly
\* mouse press reporting or bracketed paste reset
ModeStreams ==
    LET sets == { SetModes(is) : is \in { js \in SUBSET DOMAIN Modes :
                                            Cardinality(js) <= MaxModes } }
    IN  sets
        \cup { s \o DECSequence(Modes[2], "l") :
                 s \in { SetModes({2}), SetModes({2, 3, 4}), SetModes({2, 5}) } }
        \cup { s \o DECSequence(Modes[6], "l") : s \in { SetModes({6}) } }

\* what the shell prints in the runs with every UI entry point: the switch
\* to the alternate buffer, a color, a mode, text
UITokens ==
    { DECSequence(<<"1", "0", "4", "9">>, "h"), <<ESC, "[", "1", ";", "3", "1", "m">>,
      DECSequence(Modes[2], "h"), <<"a">> }

UIStreams ==
    { DECSequence(<<"1", "0", "4", "9">>, "h") \o <<ESC, "[", "1", ";", "3", "1", "m">>
        \o <<"a">>,
      DECSequence(Modes[2], "h") \o <<"a">> }

\* the OSC sequence ESC ] Ps ; Pt with its terminator
OSCSequence(ps, pt, term) == <<ESC, "]">> \o ps \o <<";">> \o pt \o term

\* the OSC sequences of the title runs: Ps 0, 1, 2, 4, 10; Pt empty, t, hi,
\* and a Pt of two lines; BEL or ST as terminator
OSCTokens ==
    { OSCSequence(ps, pt, term) :
        ps \in { <<"0">>, <<"1">>, <<"2">>, <<"4">>, <<"1", "0">> },
        pt \in { <<>>, <<"t">>, <<"h", "i">>, <<"a", "\n", "b">> },
        term \in { <<BEL>>, <<ESC, BSL>> } }

\* the outputs of the title runs: an OSC sequence, after nothing, text or
\* the switch to the alternate buffer, and before nothing or text
OSCStreams ==
    { pre \o tok \o post :
        pre \in { <<>>, <<"x">>, DECSequence(<<"1", "0", "4", "9">>, "h") },
        tok \in OSCTokens,
        post \in { <<>>, <<"r">> } }

\* the DCS sequence ESC P payload ESC \
DCSSequence(payload) == <<ESC, "P">> \o payload \o <<ESC, BSL>>

\* the payloads of the DCS runs: empty, text, text with a CSI sequence
\* inside, text that ends with an ESC
DCSPayloads ==
    { <<>>, <<"x">>, <<"a", ESC, "[", "3", "1", "m", "c">>, <<"a", ESC>> }

\* the outputs of the DCS runs: a DCS sequence, after nothing, text or the
\* switch to the alternate buffer, and before nothing or text
DCSChunkStreams ==
    { pre \o DCSSequence(payload) \o post :
        pre \in { <<>>, <<"x">>, DECSequence(<<"1", "0", "4", "9">>, "h") },
        payload \in DCSPayloads,
        post \in { <<>>, <<"r">> } }

\* the CSI sequences of the CSI runs: SGR, a DEC mode, SM, erase with and
\* without its parameter, the cursor position report, cursor position
CSITokens ==
    { <<ESC, "[", "1", ";", "3", "1", "m">>,
      DECSequence(<<"1", "0", "4", "9">>, "h"),
      <<ESC, "[", "4", "h">>,
      <<ESC, "[", "2", "J">>,
      <<ESC, "[", "K">>,
      <<ESC, "[", "6", "n">>,
      <<ESC, "[", "3", ";", "5", "H">> }

\* the outputs of the CSI runs: a CSI sequence, after nothing or text, and
\* before nothing or text
CSIStreams ==
    { pre \o tok \o post :
        pre \in { <<>>, <<"x">> }, tok \in CSITokens, post \in { <<>>, <<"r">> } }

\* the characters the shell prints as text in the ordered runs
PlainText == {"a", "b", "c", "d"}

\* the outputs of the ordered runs: text between control sequences that
\* change the insert flag, the pending color and the current buffer
OrderStreams == {
    <<"a", ESC, "[", "4", "h", "b">>
        \o DECSequence(<<"1", "0", "4", "9">>, "h") \o <<"c">>,
    <<"a", ESC, "[", "1", ";", "3", "1", "m", "b">>
        \o DECSequence(<<"1", "0", "4", "9">>, "h") \o <<"c">>
        \o DECSequence(<<"1", "0", "4", "9">>, "l") \o <<"d">>,
    DECSequence(<<"1", "0", "4", "9">>, "h")
        \o <<"a", ESC, "[", "2", "J", "b", ESC, "M", "c">>,
    OSCSequence(<<"2">>, <<"t">>, <<BEL>>)
        \o <<"a", ESC, "[", "4", "h", "b", ESC, "[", "4", "l", "c">>,
    DCSSequence(<<"x">>) \o <<"a", ESC, "[", "1", ";", "3", "1", "m", "b">> }

\* the first parameter of the parameter runs, as printed, and the number it
\* denotes; -1 where it is omitted
FirstParams ==
    { <<<<>>, -1>>, <<<<"0">>, 0>>, <<<<"1">>, 1>>, <<<<"2">>, 2>>,
      <<<<"5">>, 5>>, <<<<"6">>, 6>>, <<<<"0", "7">>, 7>>, <<<<"1", "0">>, 10>> }

\* what follows the first parameter in the parameter runs
SecondParams == { <<>>, <<";">>, <<";", "5">> }

\* the final bytes of the parameter runs: the functions of the buffers, the
\* status report, and a final byte nobody handles
ParamFunctions == ScreenCSI \cup {"n", "Z"}

\* CSI p sec fn
ParamSequence(p, sec, fn) == <<ESC, "[">> \o p \o sec \o <<fn>>

\* the outputs of the parameter runs: one CSI function
ParamStreams ==
    { ParamSequence(p[1], sec, fn) :
        p \in FirstParams, sec \in SecondParams, fn \in ParamFunctions }


\* what the shell prints before it asks for a report: nothing, text, a cursor
\* position, a cursor position and text, text on the alternate buffer
DSRPrefixes ==
    { <<>>, <<"a", "b">>, <<ESC, "[", "3", ";", "5", "H">>,
      <<ESC, "[", "3", ";", "5", "H", "a">>,
      DECSequence(<<"1", "0", "4", "9">>, "h") \o <<"a", "b", "c">> }

\* the parameters of the status report in the report runs
DSRParams == { <<>>, <<"0">>, <<"5">>, <<"6">>, <<"7">>, <<"6", ";", "2">> }

\* the outputs of the report runs: a prefix, then CSI Ps n
DSRStreams ==
    { pre \o <<ESC, "[">> \o p \o <<"n">> : pre \in DSRPrefixes, p \in DSRParams }


\* the extended color forms of the color-form runs: the parameters, the part
\* of the color they set, and the color they give
ExtendedForms ==
    { [params |-> <<"3", "8", ";", "5", ";", "9">>, part |-> "fg",
       color |-> ansiMap256(9)],
      [params |-> <<"3", "8", ";", "5", ";", "1">>, part |-> "fg",
       color |-> ansiMap256(1)],
      [params |-> <<"4", "8", ";", "5", ";", "4">>, part |-> "bg",
       color |-> ansiMap256(4)],
      [params |-> <<"3", "8", ";", "2", ";", "1", ";", "2", ";", "3">>,
       part |-> "fg", color |-> <<"rgb", 1, 2, 3>>],
      [params |-> <<"4", "8", ";", "2", ";", "5", ";", "4", ";", "1">>,
       part |-> "bg", color |-> <<"rgb", 5, 4, 1>>] }

\* the plain codes printed before or after an extended form: none, bold,
\* underline, red foreground
PlainCodes == { <<>>, <<"1">>, <<"4">>, <<"3", "1">> }

\* the plain codes around the extended form, in the color-form runs
LeadsAndTails ==
    { <<<<>>, <<>>>>, <<<<"1">>, <<>>>>, <<<<>>, <<"1">>>>, <<<<>>, <<"4">>>>,
      <<<<>>, <<"3", "1">>>>, <<<<"1">>, <<"4">>>> }

\* CSI lead ; form ; tail m, without the separators of an absent lead or tail
ExtendedSequence(lead, f, tail) ==
    <<ESC, "[">> \o (IF lead = <<>> THEN <<>> ELSE lead \o <<";">>) \o f.params
        \o (IF tail = <<>> THEN <<>> ELSE <<";">> \o tail) \o <<"m">>

\* what the shell prints before the sequence looked at: nothing, a color with
\* background and underline, one with everything set, the switch to the
\* alternate buffer, both
ColorPrefixes ==
    { <<>>,
      <<ESC, "[", "4", ";", "4", "2", "m">>,
      <<ESC, "[", "1", ";", "3", "1", ";", "4", "2", "m">>,
      DECSequence(<<"1", "0", "4", "9">>, "h"),
      <<ESC, "[", "1", ";", "3", "1", ";", "4", "2", "m">>
          \o DECSequence(<<"1", "0", "4", "9">>, "h") }

\* the outputs of the color-form runs: a prefix and one sequence with an
\* extended form, or with 39 or 49
ColorFormStreams ==
    { pre \o ExtendedSequence(lt[1], f, lt[2]) :
        pre \in { <<>>, <<ESC, "[", "4", ";", "4", "2", "m">> },
        f \in ExtendedForms, lt \in LeadsAndTails }
    \cup { pre \o <<ESC, "[">> \o p \o <<"m">> :
             pre \in ColorPrefixes, p \in { <<"3", "9">>, <<"4", "9">> } }


\* what the shell prints before the keypad code: nothing, cursor-key mode,
\* cursor-key mode and application keypad, application keypad, bracketed
\* paste and mouse press reporting with insert mode
KeypadPrefixes ==
    { <<>>,
      DECSequence(<<"1">>, "h"),
      DECSequence(<<"1">>, "h") \o <<ESC, "=">>,
      <<ESC, "=">>,
      DECSequence(<<"2", "0", "0", "4">>, "h")
          \o DECSequence(<<"1", "0", "0", "0">>, "h") \o <<ESC, "[", "4", "h">> }

\* the outputs of the keypad runs: a prefix, ESC = or ESC >, and text or not
KeypadStreams ==
    { pre \o <<ESC, c>> \o post :
        pre \in KeypadPrefixes, c \in {"=", ">"},
        post \in { <<>>, <<"a">>, <<"a", "b">> } }


\* the standard modes of the mode runs, as printed, and their numbers
StandardModes ==
    { <<<<"4">>, 4>>, <<<<"0", "4">>, 4>>, <<<<"2">>, 2>>, <<<<"1", "2">>, 12>>,
      <<<<"2", "0">>, 20>>, <<<<"3", "4">>, 34>> }

\* DEC private modes that the lookup table does not hold
UnknownPrivateModes == { <<"7">>, <<"1", "2">>, <<"2", "5">>, <<"4">> }

\* CSI Ps h or CSI Ps l
SMSequence(ps, hl) == <<ESC, "[">> \o ps \o <<hl>>

\* what the shell prints before the mode sequence: nothing, insert mode,
\* cursor-key mode and mouse press reporting
ModePrefixes ==
    { <<>>, <<ESC, "[", "4", "h">>,
      DECSequence(<<"1">>, "h") \o DECSequence(<<"1", "0", "0", "0">>, "h") }

\* the outputs of the mode runs: a prefix, a mode sequence, and text or not
StandardModeStreams ==
    { pre \o seq \o post :
        pre \in ModePrefixes,
        seq \in { SMSequence(m[1], hl) : m \in StandardModes, hl \in {"h", "l"} }
                \cup { DECSequence(ps, hl) :
                         ps \in UnknownPrivateModes, hl \in {"h", "l"} },
        post \in { <<>>, <<"a">> } }


\* the outputs of the byte runs: text and a mode sequence with bytes in them
\* that do not decode, and with a character of two bytes
ByteStreams ==
    { <<"a", XA9, "b">>, <<"a", XC3, "b">>, <<XC3, XA9, "a">>, <<"a", XC3>>,
      <<XA9>>, <<"a", XC3, XA9, "b", XA9>>, <<XC3, XC3, XA9>>,
      <<ESC, "[", XA9, "4", "h", "a">>, <<"a", "b">> }


\* what the shell prints in the write runs: modes of the input encoders, and
\* the two status reports
WriteTokens ==
    { DECSequence(<<"2", "0", "0", "4">>, "h"), DECSequence(<<"1", "0", "0", "0">>, "h"),
      DECSequence(<<"1", "0", "0", "6">>, "h"), DECSequence(<<"1">>, "h"),
      <<ESC, "[", "6", "n">>, <<ESC, "[", "5", "n">> }

\* the outputs of the write runs: modes, then a request for a report
WriteStreams ==
    { DECSequence(<<"2", "0", "0", "4">>, "h") \o <<ESC, "[", "6", "n">>,
      DECSequence(<<"1", "0", "0", "0">>, "h")
          \o DECSequence(<<"1", "0", "0", "6">>, "h") \o <<ESC, "[", "5", "n">>,
      DECSequence(<<"1", "0", "0", "0">>, "h") \o <<ESC, "[", "6", "n">>,
      DECSequence(<<"1">>, "h") \o <<ESC, "[", "6", "n">> }

\* the outputs of the two-buffer runs: the alternate screen is entered,
\* written to and left
ScreenStreams == {
    <<"a", ESC, "[", "?", "1", "0", "4", "9", "h", "b", ESC, "[", "2", "J",
      ESC, "[", "?", "1", "0", "4", "9", "l", "c">>,
    <<ESC, "[", "1", "m", "a", ESC, "[", "?", "1", "0", "4", "9", "h",
      ESC, "M", ESC, "[", "0", "m", "b", ESC, "[", "?", "1", "0", "4", "9", "l">> }

----------------------------------------------------------------------------
(* Input events *)

\* an input event: evt, key, x, y for the mouse (TTkMouseEvent); type, mod,
\* key, code for the keyboard (TTkKeyEvent); code holds the text of a paste
InputEvent(evt, key, x, y, type, mod, code) ==
    [evt |-> evt, key |-> key, x |-> x, y |-> y, type |-> type, mod |-> mod,
     code |-> code]

NoEvent == InputEvent("None", "None", 0, 0, "None", "NoModifier", <<>>)

----------------------------------------------------------------------------
(* State *)

VARIABLES
    size,            \* the widget's size(): <<w, h>>
    fd,              \* self._fd: "None", or "open" after pty.fork()
    inout,           \* the PTY: rd, what the shell wrote and nobody read yet;
                     \* wr, the messages written to it; closed, the shell is gone
    quit_pipe,       \* bytes written to the quit pipe and never read; -1: None
    resize_pipe,     \* bytes written to the resize pipe and never read; -1: None
    winsz,           \* the PTY's window size, as set by TIOCSWINSZ: <<h, w>>
    late_resize,     \* a resizeEvent issued after a _quit changed the size
    pc,              \* the reader thread: none, select, woke, slices, done
    rs,              \* what select() returned
    caller,          \* who iterates inputgenerator: loop, or osc for
                     \* __processOSCInputGenerator
    exit,            \* why _inputGenerator ended: none, quit, readfail, ioctlfail
    exc,             \* the exception that ended the reader thread, or ""
    terminal,        \* self._terminal
    keyboard,        \* self._keyboard
    mouse,           \* self._mouse
    screen_current,  \* which buffer self._screen_current is: normal, alt
    screen_normal,   \* self._screen_normal
    screen_alt,      \* self._screen_alt
    leftUnhandled,   \* loop()'s leftUnhandled
    escapeGenerator, \* loop()'s escapeGenerator: the fragments not yet taken
    oscString,       \* loop()'s oscString
    titleChanged,    \* the payloads emitted on the titleChanged signal
    shell,           \* the shell: out, all it will print; pos, how much it has
    out,             \* the chunk os.read() returned last: "for out in
                     \* inputgenerator"
    ui,              \* the last input event the widget was given: n, how many
                     \* so far; handler, evt, and ret, what the handler returned
    threads          \* the reader threads: started, how many runShell has
                     \* started; others, how many of them run besides the one
                     \* that pc follows

vars == <<size, fd, inout, quit_pipe, resize_pipe, winsz, late_resize, pc, rs,
          caller, exit, exc, terminal, keyboard, mouse, screen_current,
          screen_normal, screen_alt, leftUnhandled, escapeGenerator, oscString,
          titleChanged, shell, out, ui, threads>>

\* the reader thread's view of the state
Decoder ==
    [pc |-> pc, caller |-> caller, exc |-> exc, inout |-> inout,
     terminal |-> terminal, keyboard |-> keyboard, mouse |-> mouse,
     screen_current |-> screen_current, screen_normal |-> screen_normal,
     screen_alt |-> screen_alt, leftUnhandled |-> leftUnhandled,
     escapeGenerator |-> escapeGenerator, oscString |-> oscString,
     titleChanged |-> titleChanged]

\* the reader thread stores d
Store(d) ==
    /\ pc' = d.pc
    /\ caller' = d.caller
    /\ exc' = d.exc
    /\ inout' = d.inout
    /\ terminal' = d.terminal
    /\ keyboard' = d.keyboard
    /\ mouse' = d.mouse
    /\ screen_current' = d.screen_current
    /\ screen_normal' = d.screen_normal
    /\ screen_alt' = d.screen_alt
    /\ leftUnhandled' = d.leftUnhandled
    /\ escapeGenerator' = d.escapeGenerator
    /\ oscString' = d.oscString
    /\ titleChanged' = d.titleChanged

\* TTkTerminalView.__init__, for a shell that will print out
InitWith(streams) ==
    /\ size = InitialSize
    /\ fd = "None"
    /\ inout = [rd |-> <<>>, wr |-> <<>>, closed |-> FALSE]
    /\ quit_pipe = -1
    /\ resize_pipe = -1
    /\ winsz = <<0, 0>>
    /\ late_resize = FALSE
    /\ pc = "none"
    /\ rs = {}
    /\ caller = "loop"
    /\ exit = "none"
    /\ exc = ""
    /\ terminal = [bracketedMode |-> FALSE, DCSstring |-> <<>>, IRM |-> FALSE]
    /\ keyboard = [flags |-> {}]
    /\ mouse = [reportPress |-> FALSE, reportDrag |-> FALSE,
                reportMove |-> FALSE, sgrMode |-> FALSE]
    /\ screen_current = "normal"
    /\ screen_normal = ScreenResize(NewScreen, InitialSize[1], InitialSize[2])
    /\ screen_alt = ScreenResize(NewScreen, InitialSize[1], InitialSize[2])
    /\ leftUnhandled = <<>>
    /\ escapeGenerator = <<>>
    /\ oscString = <<>>
    /\ titleChanged = <<>>
    /\ out = <<>>
    /\ ui = [n |-> 0, handler |-> "none", evt |-> NoEvent, txt |-> <<>>,
            ret |-> "None"]
    /\ threads = [started |-> 0, others |-> 0]
    /\ \E o \in streams : shell = [out |-> o, pos |-> 0]

Init == InitWith(SessionStreams)

InitDecode == InitWith(DecodeStreams)

InitScreens == InitWith(ScreenStreams)

InitSGR == InitWith(SGRStreams)

InitInput == InitWith(ModeStreams)

InitUI == InitWith(UIStreams)

InitOSC == InitWith(OSCStreams)

InitDCS == InitWith(DCSChunkStreams)

InitCSI == InitWith(CSIStreams)

InitOrder == InitWith(OrderStreams)

InitParams == InitWith(ParamStreams)

InitWrites == InitWith(WriteStreams)

InitBytes == InitWith(ByteStreams)

InitModes == InitWith(StandardModeStreams)

InitKeypad == InitWith(KeypadStreams)

InitColorForms == InitWith(ColorFormStreams)

InitDSR == InitWith(DSRStreams)

\* a shell that prints a and ESC =, for the runs with more than one runShell
InitRuns == InitWith({<<"a", ESC, "=">>})

----------------------------------------------------------------------------
(* The UI thread *)

\* runShell(): fork, open the PTY, create the two pipes, start the reader
\* thread, and call resizeEvent with the current size
runShell ==
    /\ fd = "None"
    /\ fd' = "open"
    /\ quit_pipe' = 0
    /\ resize_pipe' = 1
    /\ threads' = [threads EXCEPT !.started = @ + 1]
    /\ pc' = "select"
    /\ caller' = "loop"
    /\ UNCHANGED <<size, inout, winsz, late_resize, rs, exit, exc, terminal,
                   keyboard, mouse, screen_current, screen_normal, screen_alt,
                   leftUnhandled, escapeGenerator, oscString, titleChanged, shell, out, ui>>

\* a resizeEvent that resizes the two buffers itself, in the UI thread
resizeEventDirect(w, h) ==
    /\ resize_pipe < MaxResize
    /\ resize_pipe' = IF resize_pipe >= 0 THEN resize_pipe + 1 ELSE resize_pipe
    /\ size' = <<w, h>>
    /\ late_resize' = (late_resize \/ (quit_pipe > 0 /\ <<w, h>> # size))
    /\ screen_alt' = ScreenResize(screen_alt, w, h)
    /\ screen_normal' = ScreenResize(screen_normal, w, h)
    /\ UNCHANGED <<fd, inout, quit_pipe, winsz, pc, rs, caller, exit, exc,
                   terminal, keyboard, mouse, screen_current, leftUnhandled,
                   escapeGenerator, oscString, titleChanged, shell, out, ui,
                   threads>>

\* resizeEvent(w, h): write to the resize pipe if there is one; the widget
\* takes the new size
resizeEvent(w, h) ==
    /\ resize_pipe < MaxResize
    /\ resize_pipe' = IF resize_pipe >= 0 THEN resize_pipe + 1 ELSE resize_pipe
    /\ size' = <<w, h>>
    /\ late_resize' = (late_resize \/ (quit_pipe > 0 /\ <<w, h>> # size))
    /\ UNCHANGED <<fd, inout, quit_pipe, winsz, pc, rs, caller, exit, exc,
                   terminal, keyboard, mouse, screen_current, screen_normal,
                   screen_alt, leftUnhandled, escapeGenerator, oscString,
                   titleChanged, shell, out, ui,
                   threads>>

\* a _quit without the test of the pipe: os.write on None raises
quitUnguarded ==
    /\ quit_pipe < MaxQuit
    /\ quit_pipe' = IF quit_pipe >= 0 THEN quit_pipe + 1 ELSE quit_pipe
    /\ exc' = IF quit_pipe >= 0 THEN exc ELSE "TypeError"
    /\ UNCHANGED <<size, fd, inout, resize_pipe, winsz, late_resize, pc, rs,
                   caller, exit, terminal, keyboard, mouse, screen_current,
                   screen_normal, screen_alt, leftUnhandled, escapeGenerator,
                   oscString, titleChanged, shell, out, ui,
                   threads>>

\* _quit(): write to the quit pipe if there is one
quit ==
    /\ quit_pipe < MaxQuit
    /\ quit_pipe' = IF quit_pipe >= 0 THEN quit_pipe + 1 ELSE quit_pipe
    /\ UNCHANGED <<size, fd, inout, resize_pipe, winsz, late_resize, pc, rs,
                   caller, exit, exc, terminal, keyboard, mouse, screen_current,
                   screen_normal, screen_alt, leftUnhandled, escapeGenerator,
                   oscString, titleChanged, shell, out, ui,
                   threads>>

\* the reader thread that pc follows is running
ReaderRuns == pc \in {"select", "woke", "slices"}

\* runShell() called again: nothing in it looks at what an earlier call has
\* left.  It forks a new shell on a new PTY, replaces the two pipes by new
\* ones, starts one more reader thread and calls resizeEvent.  The new thread
\* is the one pc follows if the earlier one has ended, with loop()'s locals
\* new; otherwise it runs besides it.
runShellAgain ==
    /\ fd = "open"
    /\ threads.started < MaxRuns
    /\ inout' = [rd |-> <<>>, wr |-> <<>>, closed |-> FALSE]
    /\ shell' = [shell EXCEPT !.pos = 0]
    /\ winsz' = <<0, 0>>
    /\ quit_pipe' = 0
    /\ resize_pipe' = 1
    /\ late_resize' = FALSE
    /\ IF ReaderRuns
       THEN /\ threads' = [started |-> threads.started + 1,
                           others |-> threads.others + 1]
            /\ UNCHANGED <<pc, caller, exit, exc, leftUnhandled,
                           escapeGenerator, oscString>>
       ELSE /\ threads' = [threads EXCEPT !.started = @ + 1]
            /\ pc' = "select"
            /\ caller' = "loop"
            /\ exit' = "none"
            /\ exc' = ""
            /\ leftUnhandled' = <<>>
            /\ escapeGenerator' = <<>>
            /\ oscString' = <<>>
    /\ UNCHANGED <<size, fd, rs, terminal, keyboard, mouse, screen_current,
                   screen_normal, screen_alt, titleChanged, out, ui>>

----------------------------------------------------------------------------
(* The UI thread: mouse, keyboard, paste *)

\* _sendMouse: the button number of evt.key in SGR mode
SGRButton(key) ==
    CASE key = "NoButton" -> 3
      [] key \in {"AllButtons", "LeftButton"} -> 0
      [] key = "RightButton" -> 2
      [] key \in {"MidButton", "MiddleButton"} -> 1
      [] key = "Wheel" -> 64
      [] OTHER -> 0

\* an SGR code table that adds nothing for a drag or a wheel down
SGRCodeFlat(evt) ==
    CASE evt.evt = "Release" -> <<SGRButton(evt.key), 0, "m">>
      [] evt.evt = "Move"    -> <<35, 0, "M">>
      [] OTHER               -> <<SGRButton(evt.key), 0, "M">>

\* _sendMouse: k, km, pr of evt in SGR mode
SGRCode(evt) ==
    CASE evt.evt = "Press"      -> <<SGRButton(evt.key), 0, "M">>
      [] evt.evt = "Release"    -> <<SGRButton(evt.key), 0, "m">>
      [] evt.evt = "Move"       -> <<35, 0, "M">>
      [] evt.evt = "Drag"       -> <<SGRButton(evt.key), 32, "M">>
      [] evt.evt = "WHEEL_Up"   -> <<SGRButton(evt.key), 0, "M">>
      [] evt.evt = "WHEEL_Down" -> <<SGRButton(evt.key), 1, "M">>
      [] OTHER                  -> <<0, 0, "M">>

\* _sendMouse: head of evt in legacy mode
LegacyHead(evt) ==
    CASE evt.evt = "Press"      -> <<ESC, "[", "M", " ">>
      [] evt.evt = "Release"    -> <<ESC, "[", "M", "#">>
      [] evt.evt = "Move"       -> <<ESC, "[", "M", "C">>
      [] evt.evt = "Drag"       -> <<ESC, "[", "M", "@">>
      [] evt.evt = "WHEEL_Up"   -> <<ESC, "[", "M", GRAVE>>
      [] evt.evt = "WHEEL_Down" -> <<ESC, "[", "M", "a">>
      [] OTHER                  -> <<>>

\* a _sendMouse that reports whether or not press reporting is on
sendMouseAlways(m, evt) ==
    IF m.sgrMode
    THEN [ret |-> "True",
          wr |-> <<Written(<<ESC, "[", "<">>
                           \o ToStr(SGRCode(evt)[1] + SGRCode(evt)[2]) \o <<";">>
                           \o ToStr(evt.x + 1) \o <<";">> \o ToStr(evt.y + 1)
                           \o <<SGRCode(evt)[3]>>, <<>>)>>]
    ELSE [ret |-> "True",
          wr |-> <<Written(LegacyHead(evt),
                           <<(evt.x + 1 + 32) % 255, (evt.y + 1 + 32) % 255>>)>>]

\* _sendMouse(evt), with the mouse flags m: ret, what it returns; wr, what it
\* writes to the PTY (nothing, or one write)
sendMouse(m, evt) ==
    IF ~m.reportPress THEN [ret |-> "False", wr |-> <<>>]
    ELSE IF ~m.reportDrag /\ evt.evt \in {"Drag", "Move"}
    THEN [ret |-> "False", wr |-> <<>>]
    ELSE IF m.sgrMode
    THEN [ret |-> "True",
          wr |-> <<Written(<<ESC, "[", "<">>
                           \o ToStr(SGRCode(evt)[1] + SGRCode(evt)[2]) \o <<";">>
                           \o ToStr(evt.x + 1) \o <<";">> \o ToStr(evt.y + 1)
                           \o <<SGRCode(evt)[3]>>, <<>>)>>]
    ELSE [ret |-> "True",
          wr |-> <<Written(LegacyHead(evt),
                           <<(evt.x + 1 + 32) % 255, (evt.y + 1 + 32) % 255>>)>>]

\* an input handler runs to its end: r.wr is written, r.ret returned
UIEvent(handler, evt, r) ==
    /\ fd = "open"
    /\ ui.n < MaxEvents
    /\ ui' = [n |-> ui.n + 1, handler |-> handler, evt |-> evt,
              txt |-> IF "txt" \in DOMAIN r THEN r.txt ELSE <<>>, ret |-> r.ret]
    /\ inout' = [inout EXCEPT !.wr = @ \o r.wr]
    /\ UNCHANGED <<size, fd, quit_pipe, resize_pipe, winsz, late_resize, pc, rs,
                   caller, exit, exc, terminal, keyboard, mouse, screen_current,
                   screen_normal, screen_alt, leftUnhandled, escapeGenerator,
                   oscString, titleChanged, shell, out,
                   threads>>

\* mousePressEvent(evt): _sendMouse(evt) | True
mousePressEvent(evt) ==
    UIEvent("mousePressEvent", evt, [sendMouse(mouse, evt) EXCEPT !.ret = "True"])

mouseReleaseEvent(evt) == UIEvent("mouseReleaseEvent", evt, sendMouse(mouse, evt))

mouseDragEvent(evt) == UIEvent("mouseDragEvent", evt, sendMouse(mouse, evt))

\* wheelEvent(evt): True if _sendMouse(evt), else the base class's answer
wheelEvent(evt) ==
    UIEvent("wheelEvent", evt,
            [sendMouse(mouse, evt) EXCEPT !.ret = IF @ = "True" THEN @ ELSE "super"])

mouseTapEvent(evt) == UIEvent("mouseTapEvent", evt, sendMouse(mouse, evt))

mouseDoubleClickEvent(evt) ==
    UIEvent("mouseDoubleClickEvent", evt, sendMouse(mouse, evt))

\* mouseMoveEvent(evt): _sendMouse only if reportMove
mouseMoveEvent(evt) ==
    UIEvent("mouseMoveEvent", evt,
            IF mouse.reportMove THEN sendMouse(mouse, evt)
            ELSE [ret |-> "False", wr |-> <<>>])

\* the positions of the mouse events: x + 33 is 37, 255, 256
MouseXs == {4, 222, 223}

MouseYs == {2}

MouseButtons == {"LeftButton", "MidButton", "RightButton"}

\* the mouse event evt, key at (x, y)
MouseEvent(evt, key, x, y) == InputEvent(evt, key, x, y, "Mouse", "NoModifier", <<>>)

\* the events each kind of handler is given
ButtonEvents(evt) ==
    { MouseEvent(evt, key, x, y) : key \in MouseButtons, x \in MouseXs, y \in MouseYs }

WheelEvents ==
    { MouseEvent(evt, "Wheel", x, y) :
        evt \in {"WHEEL_Up", "WHEEL_Down"}, x \in MouseXs, y \in MouseYs }

MoveEvents == { MouseEvent("Move", "NoButton", x, y) : x \in MouseXs, y \in MouseYs }

\* the mouse handlers at work
Mouse ==
    \/ \E evt \in ButtonEvents("Press") : mousePressEvent(evt)
    \/ \E evt \in ButtonEvents("Release") : mouseReleaseEvent(evt)
    \/ \E evt \in ButtonEvents("Drag") : mouseDragEvent(evt)
    \/ \E evt \in WheelEvents : wheelEvent(evt)
    \/ \E evt \in ButtonEvents("Press") : mouseTapEvent(evt)
    \/ \E evt \in ButtonEvents("Press") : mouseDoubleClickEvent(evt)
    \/ \E evt \in MoveEvents : mouseMoveEvent(evt)

MouseHandlers ==
    {"mousePressEvent", "mouseReleaseEvent", "mouseDragEvent", "wheelEvent",
     "mouseTapEvent", "mouseDoubleClickEvent", "mouseMoveEvent"}

\* a paste that never adds the markers
PasteWrittenBare(t, txt) == txt

\* pasteEvent(txt): the text written to the PTY, with the terminal flags t
PasteWritten(t, txt) ==
    IF t.bracketedMode
    THEN <<ESC, "[", "2", "0", "0", "~">> \o txt \o <<ESC, "[", "2", "0", "1", "~">>
    ELSE txt

\* a pasteEvent that writes the markers and the text one by one
pasteEventInPieces(txt) ==
    UIEvent("pasteEvent", NoEvent,
            [ret |-> "True",
             wr |-> IF terminal.bracketedMode
                    THEN <<Written(<<ESC, "[", "2", "0", "0", "~">>, <<>>),
                           Written(txt, <<>>),
                           Written(<<ESC, "[", "2", "0", "1", "~">>, <<>>)>>
                    ELSE <<Written(txt, <<>>)>>,
             txt |-> txt])

\* pasteEvent(txt)
pasteEvent(txt) ==
    UIEvent("pasteEvent", NoEvent,
            [ret |-> "True", wr |-> <<Written(PasteWritten(terminal, txt), <<>>)>>,
             txt |-> txt])

CursorKeys == {"Key_Up", "Key_Down", "Key_Right", "Key_Left"}

\* keyEvent: the application cursor key codes
DECCKMCode(key) ==
    CASE key = "Key_Up"    -> <<ESC, "O", "A">>
      [] key = "Key_Down"  -> <<ESC, "O", "B">>
      [] key = "Key_Right" -> <<ESC, "O", "C">>
      [] key = "Key_Left"  -> <<ESC, "O", "D">>

\* a keyEvent that never looks at the cursor key mode
KeyWrittenRaw(k, t, evt, clip) ==
    IF evt.type = "SpecialKey" /\ evt.mod = "ControlModifier" /\ evt.key = "Key_V"
    THEN PasteWritten(t, clip)
    ELSE evt.code

\* keyEvent(evt): the text written to the PTY, with the keyboard flags k, the
\* terminal flags t and clip in the clipboard
KeyWritten(k, t, evt, clip) ==
    IF evt.type = "SpecialKey" /\ evt.mod = "ControlModifier" /\ evt.key = "Key_V"
    THEN PasteWritten(t, clip)
    ELSE IF evt.type = "SpecialKey" /\ "DECCKM" \in k.flags /\ evt.key \in CursorKeys
    THEN DECCKMCode(evt.key)
    ELSE evt.code

\* keyEvent(evt), with clip in the clipboard
keyEvent(evt, clip) ==
    UIEvent("keyEvent", evt,
            [ret |-> "True",
             wr |-> <<Written(KeyWritten(keyboard, terminal, evt, clip), <<>>)>>,
             txt |-> clip])

\* the key event of key with modifier mod and raw code code
KeyEvent(type, key, mod, code) == InputEvent("None", key, 0, 0, type, mod, code)

\* the keys pressed: the cursor keys, Enter, Ctrl+Up, Ctrl+V, the letter a
KeyEvents ==
    { KeyEvent("SpecialKey", "Key_Up", "NoModifier", <<ESC, "[", "A">>),
      KeyEvent("SpecialKey", "Key_Down", "NoModifier", <<ESC, "[", "B">>),
      KeyEvent("SpecialKey", "Key_Right", "NoModifier", <<ESC, "[", "C">>),
      KeyEvent("SpecialKey", "Key_Left", "NoModifier", <<ESC, "[", "D">>),
      KeyEvent("SpecialKey", "Key_Enter", "NoModifier", <<"\n">>),
      KeyEvent("SpecialKey", "Key_Up", "ControlModifier",
               <<ESC, "[", "1", ";", "5", "A">>),
      KeyEvent("SpecialKey", "Key_V", "ControlModifier", <<SYN>>),
      KeyEvent("Character", "a", "NoModifier", <<"a">>) }

\* the texts pasted, or in the clipboard
PasteTexts == { <<>>, <<"x", "y">> }

\* the keyboard and paste handlers at work
Keyboard ==
    \/ \E evt \in KeyEvents, clip \in PasteTexts : keyEvent(evt, clip)
    \/ \E txt \in PasteTexts : pasteEvent(txt)

\* paintEvent(canvas): the current buffer paints itself on the canvas
paintEvent ==
    UIEvent("paintEvent", NoEvent, [ret |-> "None", wr |-> <<>>])

----------------------------------------------------------------------------
(* The shell *)

\* the shell writes the next k characters of its output to the PTY
ShellOutput(k) ==
    /\ fd = "open"
    /\ ~inout.closed
    /\ inout.rd = <<>>
    /\ shell.pos + k <= Len(shell.out)
    /\ inout' = [inout EXCEPT !.rd = SubSeq(shell.out, shell.pos + 1, shell.pos + k)]
    /\ shell' = [shell EXCEPT !.pos = @ + k]
    /\ UNCHANGED <<size, fd, quit_pipe, resize_pipe, winsz, late_resize, pc, rs,
                   caller, exit, exc, terminal, keyboard, mouse, screen_current,
                   screen_normal, screen_alt, leftUnhandled, escapeGenerator,
                   oscString, titleChanged, out, ui,
                   threads>>

\* the shell goes away: from now on a read of the PTY fails
ShellExit ==
    /\ fd = "open"
    /\ ~inout.closed
    /\ inout' = [inout EXCEPT !.closed = TRUE]
    /\ UNCHANGED <<size, fd, quit_pipe, resize_pipe, winsz, late_resize, pc, rs,
                   caller, exit, exc, terminal, keyboard, mouse, screen_current,
                   screen_normal, screen_alt, leftUnhandled, escapeGenerator,
                   oscString, titleChanged, shell, out, ui,
                   threads>>

----------------------------------------------------------------------------
(* The reader thread: _inputGenerator() and loop() *)

\* a select() that does not watch the quit pipe
ReadyWithoutQuit ==
    (IF inout.rd # <<>> \/ inout.closed THEN {"inout"} ELSE {})
    \cup (IF resize_pipe > 0 THEN {"resize"} ELSE {})

\* the descriptors select() finds readable; the pipes are never read, so a
\* pipe that was written once stays readable
Ready ==
    (IF inout.rd # <<>> \/ inout.closed THEN {"inout"} ELSE {})
    \cup (IF quit_pipe > 0 THEN {"quit"} ELSE {})
    \cup (IF resize_pipe > 0 THEN {"resize"} ELSE {})

\* select([inout, quit_pipe[0], resize_pipe[0]], [], []) returns
Select ==
    /\ pc = "select"
    /\ Ready # {}
    /\ rs' = Ready
    /\ pc' = "woke"
    /\ UNCHANGED <<size, fd, inout, quit_pipe, resize_pipe, winsz, late_resize,
                   caller, exit, exc, terminal, keyboard, mouse, screen_current,
                   screen_normal, screen_alt, leftUnhandled, escapeGenerator,
                   oscString, titleChanged, shell, out, ui,
                   threads>>

\* _resizeScreen(): resize the current buffer to the widget's size
resizeScreen(d) ==
    OnCurrent(d, ScreenResize(CurScreen(d), size[1], size[2]))

\* an _inputGenerator that goes back to select() where it should return
GeneratorContinue(d) == [d EXCEPT !.pc = "select"]

\* _inputGenerator() returns: "for out in inputgenerator" ends.  In loop()
\* the thread ends; in __processOSCInputGenerator() the function returns None
\* and unpacking it is a TypeError
GeneratorReturn(d) ==
    [d EXCEPT !.pc = "done", !.exc = IF d.caller = "osc" THEN "TypeError" ELSE ""]

\* _inputGenerator() yields out to whoever iterates it
GeneratorYield(d, o) ==
    IF d.caller = "osc" THEN OSCInputChunk(d, o) ELSE StartChunk(d, o)

\* the body of the while loop of _inputGenerator(), after select() returned
WakeUp ==
    /\ pc = "woke"
    /\ IF "quit" \in rs
       THEN /\ Store(GeneratorReturn(Decoder))
            /\ exit' = "quit"
            /\ winsz' = winsz
       ELSE LET d1 == IF "resize" \in rs THEN resizeScreen(Decoder) ELSE Decoder
            IN  /\ winsz' = IF "resize" \in rs /\ fd = "open"
                            THEN <<size[2], size[1]>> ELSE winsz
                /\ IF "inout" \notin rs
                   THEN Store([d1 EXCEPT !.pc = "select"]) /\ exit' = exit
                   ELSE IF inout.closed
                   THEN /\ Store(GeneratorReturn([d1 EXCEPT !.inout.rd = <<>>]))
                        /\ exit' = "readfail"
                   ELSE /\ Store(GeneratorYield([d1 EXCEPT !.inout.rd = <<>>],
                                                 Decoded(inout.rd)))
                        /\ exit' = exit
    /\ out' = IF "quit" \notin rs /\ "inout" \in rs /\ ~inout.closed
              THEN Decoded(inout.rd) ELSE out
    /\ UNCHANGED <<size, fd, quit_pipe, resize_pipe, late_resize, rs, shell, ui,
                   threads>>

\* the wake-up with a resize request, when the TIOCSWINSZ ioctl of
\* _resizeScreen() fails: the current buffer has been resized, the OSError
\* leaves _resizeScreen(), _inputGenerator() and loop(), no handler on its way
WakeUpIoctlFails ==
    /\ pc = "woke"
    /\ "quit" \notin rs
    /\ "resize" \in rs
    /\ fd = "open"
    /\ Store(Raise(resizeScreen(Decoder), "OSError"))
    /\ exit' = "ioctlfail"
    /\ UNCHANGED <<size, fd, quit_pipe, resize_pipe, winsz, late_resize, rs,
                   shell, out, ui, threads>>

\* one turn of "for slice in escapeGenerator"
Slice ==
    /\ pc = "slices"
    /\ escapeGenerator # <<>>
    /\ Store(ProcessSlice(Decoder))
    /\ UNCHANGED <<size, fd, quit_pipe, resize_pipe, winsz, late_resize, rs,
                   exit, shell, out, ui,
                   threads>>

\* the chunk is done: update(), setWidgetCursor(), and back to the generator
EndChunk ==
    /\ pc = "slices"
    /\ escapeGenerator = <<>>
    /\ pc' = "select"
    /\ UNCHANGED <<size, fd, inout, quit_pipe, resize_pipe, winsz, late_resize,
                   rs, caller, exit, exc, terminal, keyboard, mouse,
                   screen_current, screen_normal, screen_alt, leftUnhandled,
                   escapeGenerator, oscString, titleChanged, shell, out, ui,
                   threads>>

Reader == Select \/ WakeUp \/ Slice \/ EndChunk

----------------------------------------------------------------------------
(* Specifications *)

Next ==
    \/ runShell
    \/ \E sz \in Sizes : resizeEvent(sz[1], sz[2])
    \/ quit
    \/ \E k \in 1..Len(shell.out) : ShellOutput(k)
    \/ ShellExit
    \/ Reader

Spec == Init /\ [][Next]_vars

\* the reader thread can take a step: select() has something to return, or
\* the thread is past select() and inside its loops
ReaderEnabled ==
    \/ pc = "select" /\ Ready # {}
    \/ pc \in {"woke", "slices"}

\* the reader thread is scheduled as long as it can run: weak fairness of
\* Reader, WF_vars(Reader), with ENABLED <<Reader>>_vars written out as
\* ReaderEnabled (every step of Reader changes pc or escapeGenerator)
FairSpec == Spec /\ ([]<>(~ReaderEnabled) \/ []<><<Reader>>_vars)

\* the decoder alone: the shell prints, the reader decodes, the UI thread
\* only starts the shell
NextDecode ==
    \/ runShell
    \/ \E k \in 1..Len(shell.out) : ShellOutput(k)
    \/ Reader

SpecDecode == InitDecode /\ [][NextDecode]_vars

\* the same, for the two-buffer runs
SpecScreens == InitScreens /\ [][NextDecode]_vars

\* the same, for the title runs
SpecOSC == InitOSC /\ [][NextDecode]_vars

\* the same, for the DCS runs
SpecDCS == InitDCS /\ [][NextDecode]_vars

\* the same, for the CSI runs
SpecCSI == InitCSI /\ [][NextDecode]_vars

\* the same, for the ordered runs
SpecOrder == InitOrder /\ [][NextDecode]_vars

\* the same, for the parameter runs
SpecParams == InitParams /\ [][NextDecode]_vars

\* the same, for the report runs
SpecDSR == InitDSR /\ [][NextDecode]_vars

\* the same, for the color-form runs
SpecColorForms == InitColorForms /\ [][NextDecode]_vars

\* the same, for the keypad runs
SpecKeypad == InitKeypad /\ [][NextDecode]_vars

\* the same, for the mode runs
SpecModes == InitModes /\ [][NextDecode]_vars

\* the same, for the byte runs
SpecBytes == InitBytes /\ [][NextDecode]_vars

\* the shell prints its next k characters, which are one of WriteTokens
ShellOutputWriteToken(k) ==
    /\ shell.pos + k <= Len(shell.out)
    /\ SubSeq(shell.out, shell.pos + 1, shell.pos + k) \in WriteTokens
    /\ ShellOutput(k)

\* the write runs: the reader answers the shell's requests while the UI
\* thread encodes mouse, key and paste events
NextWrites ==
    \/ runShell
    \/ \E k \in 1..Len(shell.out) : ShellOutputWriteToken(k)
    \/ Reader
    \/ Mouse
    \/ Keyboard

SpecWrites == InitWrites /\ [][NextWrites]_vars

\* the shell prints its next k characters, which are one mode sequence
ShellOutputSequence(k) ==
    /\ shell.pos + k <= Len(shell.out)
    /\ SubSeq(shell.out, shell.pos + 1, shell.pos + k) \in ModeTokens
    /\ ShellOutput(k)

\* the input runs: the shell prints mode sequences, the reader decodes them,
\* the UI thread hands input events to the widget
NextInput ==
    \/ runShell
    \/ \E k \in 1..Len(shell.out) : ShellOutputSequence(k)
    \/ Reader
    \/ Mouse
    \/ Keyboard

SpecInput == InitInput /\ [][NextInput]_vars

\* the shell prints its next k characters, which are one of UITokens
ShellOutputToken(k) ==
    /\ shell.pos + k <= Len(shell.out)
    /\ SubSeq(shell.out, shell.pos + 1, shell.pos + k) \in UITokens
    /\ ShellOutput(k)

\* every entry point of the UI thread, with the reader at work
NextUI ==
    \/ runShell
    \/ \E sz \in Sizes : resizeEvent(sz[1], sz[2])
    \/ quit
    \/ Mouse
    \/ Keyboard
    \/ paintEvent
    \/ \E k \in 1..Len(shell.out) : ShellOutputToken(k)
    \/ Reader

SpecUI == InitUI /\ [][NextUI]_vars

\* the session on a PTY whose window size cannot always be set
NextIoctl ==
    \/ Next
    \/ WakeUpIoctlFails

SpecIoctl == Init /\ [][NextIoctl]_vars

\* a reader thread besides the one pc follows finds the quit pipe readable
\* and returns; of these threads only the start and the end are followed
OtherReturn ==
    /\ threads.others > 0
    /\ quit_pipe > 0
    /\ threads' = [threads EXCEPT !.others = @ - 1]
    /\ UNCHANGED <<size, fd, inout, quit_pipe, resize_pipe, winsz, late_resize,
                   pc, rs, caller, exit, exc, terminal, keyboard, mouse,
                   screen_current, screen_normal, screen_alt, leftUnhandled,
                   escapeGenerator, oscString, titleChanged, shell, out, ui>>

\* the session with runShell called more than once
NextRuns ==
    \/ Next
    \/ runShellAgain
    \/ OtherReturn

SpecRuns == InitRuns /\ [][NextRuns]_vars

\* the same, for the color runs
SpecSGR == InitSGR /\ [][NextDecode]_vars

TypeOK ==
    /\ pc \in {"none", "select", "woke", "slices", "done"}
    /\ caller \in {"loop", "osc"}
    /\ exit \in {"none", "quit", "readfail", "ioctlfail"}
    /\ screen_current \in {"normal", "alt"}
    /\ rs \subseteq {"inout", "quit", "resize"}

----------------------------------------------------------------------------
(* loop() over a stream delivered in one piece *)

\* "for slice in escapeGenerator" to its end, then back to the generator
RECURSIVE RunSlices(_)
RunSlices(d) ==
    IF d.pc = "slices" /\ d.escapeGenerator # <<>>
    THEN RunSlices(ProcessSlice(d))
    ELSE IF d.pc = "slices" THEN [d EXCEPT !.pc = "select"] ELSE d

\* the state loop() starts from, as __init__ and runShell leave it
FreshDecoder ==
    [pc |-> "select", caller |-> "loop", exc |-> "",
     inout |-> [rd |-> <<>>, wr |-> <<>>, closed |-> FALSE],
     terminal |-> [bracketedMode |-> FALSE, DCSstring |-> <<>>, IRM |-> FALSE],
     keyboard |-> [flags |-> {}],
     mouse |-> [reportPress |-> FALSE, reportDrag |-> FALSE,
                reportMove |-> FALSE, sgrMode |-> FALSE],
     screen_current |-> "normal",
     screen_normal |-> ScreenResize(NewScreen, InitialSize[1], InitialSize[2]),
     screen_alt |-> ScreenResize(NewScreen, InitialSize[1], InitialSize[2]),
     leftUnhandled |-> <<>>, escapeGenerator |-> <<>>, oscString |-> <<>>,
     titleChanged |-> <<>>]

\* one turn of "for out in inputgenerator" in loop(), for the chunk o
DecodeWhole(o) == RunSlices(StartChunk(FreshDecoder, o))

\* what the decoder has done that can be seen from outside: the text and the
\* control functions applied to each buffer, in order, the pending colors,
\* which buffer is current, the mode flags, the titles emitted, the replies
\* written to the PTY
Observable(d) ==
    [normal |-> d.screen_normal.log, alt |-> d.screen_alt.log,
     color |-> <<d.screen_normal.color, d.screen_alt.color>>,
     current |-> d.screen_current,
     IRM |-> d.terminal.IRM, bracketedMode |-> d.terminal.bracketedMode,
     keyboard |-> d.keyboard, mouse |-> d.mouse,
     titleChanged |-> d.titleChanged, wr |-> d.inout.wr]

\* the shell has printed everything and the reader has nothing left to do
\* with it
AllDecoded ==
    /\ fd = "open"
    /\ shell.pos = Len(shell.out)
    /\ inout.rd = <<>>
    /\ pc \in {"select", "done"}

----------------------------------------------------------------------------
(* Chunk boundaries *)

\* C1: whatever the pieces the shell's output arrives in, once all of it is
\* decoded the buffers, colors, mode flags, titles and replies are those of
\* decoding the whole output as one chunk.
C1_ChunkInvariance ==
    AllDecoded => Observable(Decoder) = Observable(DecodeWhole(shell.out))

\* the OSC title sequences of the streams, and the streams made of one of
\* them and, possibly, text after it
TitleTokens ==
    { <<ESC, "]", "2", ";", "t", BEL>>, <<ESC, "]", "0", ";", "t", ESC, BSL>> }

TitleStreams ==
    TitleTokens \cup { t \o u : t \in TitleTokens, u \in {<<"a">>, <<"b">>} }

\* C2: an OSC title sequence whose start ESC ] Ps ; Pt was taken from one
\* read (oscString holds Ps;Pt) has, once its terminator and the rest are
\* decoded, emitted exactly one titleChanged carrying Pt, and loop() is
\* again the one that takes the chunks.
C2_OSCTitleAcrossReads ==
    (AllDecoded /\ shell.out \in TitleStreams /\ re_OSC_ps_Pt(oscString).pt = <<"t">>)
        => /\ titleChanged = << <<"t">> >>
           /\ caller = "loop"

\* the streams that start with the DCS sequence
DCSToken == <<ESC, "P", "x", ESC, BSL>>

DCSStreams == {DCSToken} \cup { DCSToken \o u : u \in {<<"a">>, <<"b">>} }

\* C3: a DCS sequence, in whatever pieces it arrives, never ends the reader
\* with an exception; nothing of it is pushed as text, and what follows its
\* terminator is decoded as usual.
C3_DCSAcrossReads ==
    shell.out \in DCSStreams
        => /\ exc = ""
           /\ AllDecoded =>
                  Observable(Decoder) = Observable(DecodeWhole(Drop(shell.out, Len(DCSToken))))

\* C4: the reader thread ends only because _inputGenerator returned, on quit
\* or on a failed read of the PTY; no content of the stream ends it.
C4_NoFatalInput ==
    pc = "done" => exit \in {"quit", "readfail"}

\* a fragment no branch of loop() recognizes
UnknownToken == <<ESC, "?">>

\* text, and the sequences that are one recognized fragment
PlainTokens == { <<"a">>, <<"b">> }

SimpleTokens ==
    PlainTokens \cup
    { <<ESC, "[", "4", "h">>, <<ESC, "[", "2", "J">>, <<ESC, "[", "6", "n">>,
      <<ESC, "=">>, <<ESC, "M">>, <<ESC, "[", "1", ";", "3", "1", "m">>,
      <<ESC, "[", "?", "1", "0", "4", "9", "h">> }

\* C5: what comes after an unrecognized fragment, a recognized sequence or a
\* text run that arrives in a chunk of its own, is applied to the buffers as
\* if the unrecognized fragment had not been there.
C5_UnknownThenDecoded ==
    \A u \in SimpleTokens :
        (AllDecoded /\ shell.out = UnknownToken \o u /\ (u \in PlainTokens => out = u))
            => Observable(Decoder) = Observable(DecodeWhole(u))

\* s is the beginning of t
IsPrefix(s, t) == Len(s) <= Len(t) /\ SubSeq(t, 1, Len(s)) = s

\* no fragment of the current chunk has been taken yet: leftUnhandled is
\* still what was prepended to out
FirstSlice ==
    Len(escapeGenerator) = Len(Split(leftUnhandled \o out, ESC)) - 1

\* C6: a fragment retained in leftUnhandled while a chunk is decoded stays
\* there for the rest of the chunk, wherever in the chunk it was.
C6_LeftUnhandledKept ==
    [][(pc = "slices" /\ caller = "loop" /\ leftUnhandled # <<>> /\ ~FirstSlice)
          => IsPrefix(leftUnhandled, leftUnhandled')]_vars

----------------------------------------------------------------------------
(* Quit and resize *)

\* the dimensions of the two buffers
ScreenDims == <<screen_normal.w, screen_normal.h, screen_alt.w, screen_alt.h>>

\* C7: once a resizeEvent issued after _quit has changed the size, no buffer
\* is resized any more and the PTY's window size is not set any more.
C7_QuitThenResize ==
    [][late_resize => (ScreenDims' = ScreenDims /\ winsz' = winsz)]_vars

\* C8: when the reader has exited on quit, with a resize request on the
\* resize pipe and no change of size after the quit, the current buffer and
\* the PTY have the widget's size.
C8_ResizeThenQuit ==
    (pc = "done" /\ exit = "quit" /\ resize_pipe > 0 /\ ~late_resize)
        => /\ <<CurScreen(Decoder).w, CurScreen(Decoder).h>> = size
           /\ winsz = <<size[2], size[1]>>

\* what only the reader thread writes
ReaderState ==
    <<terminal, keyboard, mouse, screen_current, screen_normal, screen_alt,
      titleChanged, leftUnhandled, escapeGenerator, oscString, winsz, out,
      inout.wr>>

\* C9: after _quit while the reader runs, the reader eventually ends; and
\* from the wake-up in which select() reported the quit pipe on, the reader
\* reads nothing from the PTY, decodes nothing and changes no buffer, even
\* with PTY data reported by the same select().
C9_CooperativeCancellation ==
    /\ (quit_pipe > 0 /\ pc \notin {"none", "done"}) ~> (pc = "done")
    /\ [][((pc = "woke" /\ "quit" \in rs) \/ (pc = "done" /\ exit = "quit"))
             => /\ ReaderState' = ReaderState
                /\ inout.rd # <<>> => inout'.rd = inout.rd]_vars

\* the reader exited on quit in a wake-up that also had PTY data, and left
\* the data unread
C9_Witness ==
    /\ pc = "done" /\ exit = "quit"
    /\ {"quit", "inout"} \subseteq rs
    /\ inout.rd # <<>>

----------------------------------------------------------------------------
(* The two buffers *)

\* C10: while the alternate buffer is current, the normal buffer's log and
\* dimensions, hence its cursor and cells, do not change; the step that
\* switches back adds to it only the text that follows the switch.
C10_AlternateScreenIsolation ==
    [][screen_current = "alt"
          => /\ screen_normal'.w = screen_normal.w
             /\ screen_normal'.h = screen_normal.h
             /\ IsPrefix(screen_normal.log, screen_normal'.log)
             /\ screen_current' = "alt" => screen_normal'.log = screen_normal.log
             /\ \A i \in (Len(screen_normal.log) + 1)..Len(screen_normal'.log) :
                    screen_normal'.log[i].k = "text"]_vars

\* back on the normal buffer, which has kept what it had, after text and a
\* control function went to the alternate buffer
C10_Witness ==
    /\ screen_current = "normal"
    /\ screen_normal.log # <<>>
    /\ \E i \in 1..Len(screen_alt.log) : screen_alt.log[i].k = "text"
    /\ \E i \in 1..Len(screen_alt.log) : screen_alt.log[i].k \in {"CSI", "C1"}

----------------------------------------------------------------------------
(* SGR *)

\* the pending color of the current buffer, and of the current buffer of the
\* next state
PendingColor ==
    IF screen_current = "normal" THEN screen_normal.color ELSE screen_alt.color

PendingColorNext ==
    IF screen_current' = "normal" THEN screen_normal'.color ELSE screen_alt'.color

\* the reader is about to take an SGR fragment; SGRParameters is its
\* parameter string
AtSGR ==
    /\ pc = "slices" /\ escapeGenerator # <<>>
    /\ ~re_DEC_SET_RST(Head(escapeGenerator)).ok
    /\ re_CURSOR(Head(escapeGenerator)).ok
    /\ re_CURSOR(Head(escapeGenerator)).fn = "m"

SGRParameters == re_CURSOR(Head(escapeGenerator)).g1

\* the step is the reader's, taking the next fragment
TakesFragment == pc = "slices" /\ escapeGenerator' # escapeGenerator

\* C11: ESC[0m and ESC[m leave the pending color of the buffers with no
\* foreground, no background and no attribute, whatever it was.
C11_SGRReset ==
    [][(AtSGR /\ TakesFragment /\ SGRParameters \in {<<"0">>, <<>>})
          => /\ PendingColorNext.fg = None
             /\ PendingColorNext.bg = None
             /\ PendingColorNext.mod = {}
             /\ screen_normal'.color = screen_alt'.color]_vars

\* a reset was decoded while the pending color was bold red
C11_Witness ==
    /\ AllDecoded
    /\ shell.out \in { <<ESC, "[", "1", ";", "3", "1", "m">> \o t :
                          t \in { <<ESC, "[", "0", "m">>, <<ESC, "[", "m">> } }
    /\ PendingColor = RST

\* the attribute bits of the model
AttributeBits == {"BOLD", "ITALIC", "UNDERLINE", "STRIKETROUGH", "BLINKING"}

\* the numbers of an SGR parameter string
SGRNumbers(g1) == { ToInt(Split(g1, ";")[i]) : i \in 1..Len(Split(g1, ";")) }

\* a parameter string of plain codes: no empty parameter, no 0, no extended
\* color form
PlainSGR(g1) ==
    /\ g1 # <<>>
    /\ \A i \in 1..Len(Split(g1, ";")) : Split(g1, ";")[i] # <<>>
    /\ SGRNumbers(g1) \cap {0, 38, 48} = {}

NamesFg(n) == n = 39 \/ (30 <= n /\ n <= 37) \/ (90 <= n /\ n <= 97)

NamesBg(n) == n = 49 \/ (40 <= n /\ n <= 47) \/ (100 <= n /\ n <= 107)

NamesBit(n, b) == SGR_SET(n) = b \/ SGR_RST(n) = b

\* C12: an SGR sequence of plain codes without 0 changes only what its
\* parameters name: the foreground, the background and each attribute bit
\* that no parameter names keep the value of the current buffer's pending
\* color; ESC[1;31m gives bold and red foreground on top of that.
C12_SGRPartialUpdate ==
    [][(AtSGR /\ TakesFragment /\ PlainSGR(SGRParameters))
          => /\ (\A n \in SGRNumbers(SGRParameters) : ~NamesFg(n))
                    => PendingColorNext.fg = PendingColor.fg
             /\ (\A n \in SGRNumbers(SGRParameters) : ~NamesBg(n))
                    => PendingColorNext.bg = PendingColor.bg
             /\ \A b \in AttributeBits :
                    (\A n \in SGRNumbers(SGRParameters) : ~NamesBit(n, b))
                        => (b \in PendingColorNext.mod <=> b \in PendingColor.mod)
             /\ SGRParameters = <<"1", ";", "3", "1">>
                    => /\ PendingColorNext.fg = ansiMap16(31)
                       /\ PendingColorNext.mod = PendingColor.mod \cup {"BOLD"}]_vars

\* ESC[1;31m was decoded on top of underline and green background
C12_Witness ==
    /\ AllDecoded
    /\ shell.out = <<ESC, "[", "4", ";", "4", "2", "m", ESC, "[", "1", ";", "3", "1", "m">>
    /\ PendingColor.fg = ansiMap16(31)
    /\ PendingColor.bg = ansiMap16(42)
    /\ PendingColor.mod = {"UNDERLINE", "BOLD"}

----------------------------------------------------------------------------
(* Mouse *)

\* the step is an input event handled by one of hs
Handled(hs) == ui'.n # ui.n /\ ui'.handler \in hs

\* C13: while reportPress is off, no mouse handler writes anything to the
\* PTY, in SGR mode and in legacy mode.
C13_NoReportWithoutPress ==
    [][(Handled(MouseHandlers) /\ ~mouse.reportPress) => inout'.wr = inout.wr]_vars

\* a mouse event was given and nothing written, with press reporting off, in
\* SGR mode and with drag and move reporting on
C13_Witness ==
    /\ ui.handler \in MouseHandlers
    /\ ~mouse.reportPress /\ mouse.sgrMode /\ mouse.reportDrag /\ mouse.reportMove
    /\ inout.wr = <<>>

\* what the step wrote to the PTY last
LastWritten == inout'.wr[Len(inout'.wr)]

\* the step is a mouse event reported to the PTY
Reported == Handled(MouseHandlers) /\ Len(inout'.wr) = Len(inout.wr) + 1

\* the button code of the standard table: left 0, middle 1, right 2
ButtonCode(key) ==
    CASE key = "LeftButton" -> 0 [] key = "MidButton" -> 1 [] key = "RightButton" -> 2

\* Pb of the standard table: the button code, plus 32 for a drag; 64 for the
\* wheel, up 0 and down 1
Pb(evt) ==
    CASE evt.evt \in {"Press", "Release"} -> ButtonCode(evt.key)
      [] evt.evt = "Drag"       -> ButtonCode(evt.key) + 32
      [] evt.evt = "WHEEL_Up"   -> 64
      [] evt.evt = "WHEEL_Down" -> 64 + 1

C15_LegacyEncoding ==
    [][(Reported /\ ~mouse.sgrMode) =>
         LET evt == ui'.evt
             w   == LastWritten
         IN  /\ Len(w.text) = 4
             /\ Take(w.text, 3) = <<ESC, "[", "M">>
             /\ w.raw = <<(evt.x + 1 + 32) % 256, (evt.y + 1 + 32) % 256>>]_vars

\* C16: with press reporting on, a drag event is reported exactly if drag
\* reporting is on and a move event exactly if move reporting is on, each
\* flag whatever the other is.
C16_DragMoveIndependent ==
    [][(Handled(MouseHandlers) /\ mouse.reportPress) =>
         /\ ui'.evt.evt = "Drag" => (Reported <=> mouse.reportDrag)
         /\ ui'.evt.evt = "Move" => (Reported <=> mouse.reportMove)]_vars

----------------------------------------------------------------------------
(* Keyboard and paste *)

\* the key of the event is Ctrl+V, the paste key
IsPasteKey(evt) ==
    evt.type = "SpecialKey" /\ evt.mod = "ControlModifier" /\ evt.key = "Key_V"

\* the step is a cursor key pressed while application cursor key mode is on
CursorKeyRemapped ==
    /\ ui'.evt.type = "SpecialKey" /\ ui'.evt.key \in CursorKeys
    /\ "DECCKM" \in keyboard.flags

\* the codes of application cursor key mode
ApplicationCode(key) ==
    <<ESC, "O", CASE key = "Key_Up" -> "A" [] key = "Key_Down" -> "B"
                  [] key = "Key_Right" -> "C" [] key = "Key_Left" -> "D">>

\* txt between the bracketed paste markers
Bracketed(txt) ==
    <<ESC, "[", "2", "0", "0", "~">> \o txt \o <<ESC, "[", "2", "0", "1", "~">>

\* C17, as stated: a cursor key is written as ESC O A/B/C/D exactly while
\* application cursor key mode is on; otherwise, and for every other key,
\* the raw code of the event is written unchanged.
C17_KeysAsStated ==
    [][Handled({"keyEvent"}) =>
         /\ Len(inout'.wr) = Len(inout.wr) + 1
         /\ LastWritten.text = IF CursorKeyRemapped THEN ApplicationCode(ui'.evt.key)
                               ELSE ui'.evt.code]_vars

\* C17, amended: as stated for every key but Ctrl+V; Ctrl+V writes no key
\* code: it pastes the clipboard text, as pasteEvent does.
C17_KeysButPaste ==
    [][Handled({"keyEvent"}) =>
         /\ Len(inout'.wr) = Len(inout.wr) + 1
         /\ LastWritten.text =
              IF IsPasteKey(ui'.evt)
              THEN IF terminal.bracketedMode THEN Bracketed(ui'.txt) ELSE ui'.txt
              ELSE IF CursorKeyRemapped THEN ApplicationCode(ui'.evt.key)
              ELSE ui'.evt.code]_vars

\* Key_Left was pressed in application cursor key mode and written as ESC O D
C17_Witness ==
    /\ ui.handler = "keyEvent"
    /\ ui.evt.key = "Key_Left"
    /\ "DECCKM" \in keyboard.flags
    /\ inout.wr = <<Written(<<ESC, "O", "D">>, <<>>)>>

\* the step pastes a text: pasteEvent, or Ctrl+V
Pastes == Handled({"pasteEvent"}) \/ (Handled({"keyEvent"}) /\ IsPasteKey(ui'.evt))

\* C18: a pasted text is written as ESC[200~ text ESC[201~ exactly if
\* bracketed paste mode is on, and as the text alone otherwise.
C18_BracketedPaste ==
    [][Pastes =>
         /\ Len(inout'.wr) = Len(inout.wr) + 1
         /\ LastWritten.text =
              IF terminal.bracketedMode THEN Bracketed(ui'.txt) ELSE ui'.txt]_vars

\* xy was pasted in bracketed paste mode and written between the markers
C18_Witness ==
    /\ ui.handler = "pasteEvent"
    /\ ui.txt = <<"x", "y">>
    /\ terminal.bracketedMode
    /\ inout.wr = <<Written(<<ESC, "[", "2", "0", "0", "~", "x", "y",
                              ESC, "[", "2", "0", "1", "~">>, <<>>)>>

----------------------------------------------------------------------------
(* _quit and resizeEvent *)

\* everything but the number of requests in the quit pipe
AllButQuitPipe ==
    <<size, fd, inout, resize_pipe, winsz, late_resize, pc, rs, caller, exit,
      exc, terminal, keyboard, mouse, screen_current, screen_normal, screen_alt,
      leftUnhandled, escapeGenerator, oscString, titleChanged, shell, out, ui,
      threads>>

AppliesResize == pc = "woke" /\ pc' # pc /\ "resize" \in rs /\ "quit" \notin rs

\* C20: when a resize has been applied, both buffers, the normal one and the
\* alternate one, have the new dimensions, whichever is current.
C20_ResizeBothBuffers ==
    [][AppliesResize =>
         /\ <<screen_normal'.w, screen_normal'.h>> = size
         /\ <<screen_alt'.w, screen_alt'.h>> = size]_vars

----------------------------------------------------------------------------
(* Threads and resources *)

\* the reader threads running
RunningReaders == (IF ReaderRuns THEN 1 ELSE 0) + threads.others

\* C21: whatever runShell, resizeEvent and _quit calls are made, at most one
\* reader thread is running at any time.
C21_OneReader == RunningReaders <= 1

\* the step is made by an entry point of the UI thread: an input or paint
\* event, resizeEvent, _quit, runShell
UIStep ==
    \/ ui' # ui
    \/ size' # size \/ resize_pipe' # resize_pipe
    \/ quit_pipe' # quit_pipe
    \/ fd' # fd

\* the buffers with their pending color, which one is current, the mode flags
ScreenState == <<screen_normal, screen_alt, screen_current, terminal, keyboard, mouse>>

\* C22: no entry point of the UI thread changes a buffer, the pending color,
\* the current buffer or a mode flag; the buffers' dimensions change only in
\* the reader's wake-up from select().
C22_ReaderSoleWriter ==
    [][/\ UIStep => ScreenState' = ScreenState
       /\ ScreenDims' # ScreenDims => (pc = "woke" /\ ~UIStep)]_vars

\* a resize was requested and is not yet applied, and an input event was
\* handled, after the reader switched to the alternate buffer and set a color
C22_Witness ==
    /\ size # InitialSize
    /\ ScreenDims = <<InitialSize[1], InitialSize[2], InitialSize[1], InitialSize[2]>>
    /\ ui.n > 0
    /\ screen_current = "alt"
    /\ screen_alt.color # RST

\* the reader is in the wake-up in which the read of the PTY fails
ReadFails ==
    pc = "woke" /\ pc' # pc /\ "quit" \notin rs /\ "inout" \in rs /\ inout.closed

\* C23: when a read of the PTY fails the reader ends, and it stays ended:
\* from then on nothing is decoded, no buffer or flag changes, no title is
\* emitted, and no reader is started.
C23_ReadFailureStops ==
    [][/\ ReadFails => (pc' = "done" /\ exit' = "readfail")
       /\ (pc = "done" /\ exit = "readfail")
            => /\ pc' = "done" /\ exit' = exit
               /\ ReaderState' = ReaderState
               /\ threads' = threads]_vars

\* the reader has ended on a failed read, and a resize requested since then
\* has not been applied
C23_Witness ==
    /\ pc = "done" /\ exit = "readfail"
    /\ size # <<CurScreen(Decoder).w, CurScreen(Decoder).h>>
    /\ threads = [started |-> 1, others |-> 0]

\* the step is the wake-up in which the ioctl fails
IoctlFails == exit # "ioctlfail" /\ exit' = "ioctlfail"

\* C24: when the ioctl that sets the PTY's window size fails while a resize
\* is applied, the reader keeps running, with no exception, and the current
\* buffer has the new size.
C24_IoctlFailureSurvived ==
    [][IoctlFails =>
         /\ pc' \in {"select", "slices"} /\ exc' = ""
         /\ <<CurScreen(Decoder).w, CurScreen(Decoder).h>>' = size]_vars

\* C25: when the reader has exited, the PTY descriptor and the two pipes are
\* released with it: there is no state with the reader ended and the
\* descriptor or a pipe still open.
C25_TeardownTogether ==
    pc = "done" => (fd = "None" /\ quit_pipe = -1 /\ resize_pipe = -1)

----------------------------------------------------------------------------
(* OSC, DCS and CSI inside one chunk *)

\* the next fragment starts an OSC string
AtOSC ==
    /\ pc = "slices" /\ escapeGenerator # <<>>
    /\ Head(escapeGenerator) # <<>> /\ Head(escapeGenerator)[1] = "]"

\* the OSC fragment after its "]"
OSCBody == Tail(Head(escapeGenerator))

\* the string is closed in this chunk: by BEL in the fragment, or by the next
\* fragment being the backslash of ST
OSCClosedHere ==
    \/ IndexOf(OSCBody, BEL) > 0
    \/ /\ Len(escapeGenerator) >= 2
       /\ escapeGenerator[2] # <<>> /\ escapeGenerator[2][1] = BSL

\* Ps;Pt, and the text after the terminator
OSCString ==
    IF IndexOf(OSCBody, BEL) > 0 THEN Take(OSCBody, IndexOf(OSCBody, BEL) - 1)
    ELSE OSCBody

OSCRest ==
    IF IndexOf(OSCBody, BEL) > 0 THEN Drop(OSCBody, IndexOf(OSCBody, BEL))
    ELSE Tail(escapeGenerator[2])

OSCPs == Take(OSCString, Span(OSCString, Digits))

OSCPt == Drop(OSCString, Len(OSCPs) + 1)

\* Ps is a number and Pt is text of printable characters
OSCWellFormed ==
    /\ OSCPs # <<>>
    /\ Len(OSCString) > Len(OSCPs) /\ OSCString[Len(OSCPs) + 1] = ";"
    /\ \A i \in 1..Len(OSCPt) : OSCPt[i] # "\n"

AtDCS ==
    /\ pc = "slices" /\ escapeGenerator # <<>>
    /\ Head(escapeGenerator) # <<>> /\ Head(escapeGenerator)[1] = "P"

\* the fragments of this chunk that start with the backslash of ST
DCSTerminators ==
    { j \in 2..Len(escapeGenerator) :
        escapeGenerator[j] # <<>> /\ escapeGenerator[j][1] = BSL }

\* the text after the first terminator
DCSRest ==
    Tail(escapeGenerator[CHOOSE j \in DCSTerminators :
                            \A k \in DCSTerminators : j <= k])

\* C27: a DCS sequence whose terminator is in the same chunk does not end
\* the reader; nothing between ESC P and the terminator is pushed or changes
\* a flag, a color, the current buffer or the title, whatever ESC it holds;
\* the accumulator is empty afterwards; the text after the terminator, and
\* nothing else, is pushed to the current buffer.
C27_DCSInOneChunk ==
    [][(AtDCS /\ TakesFragment /\ DCSTerminators # {}) =>
         /\ exc' = ""
         /\ terminal' = [terminal EXCEPT !.DCSstring = <<>>]
         /\ <<keyboard, mouse, screen_current, titleChanged>>'
              = <<keyboard, mouse, screen_current, titleChanged>>
         /\ <<screen_normal', screen_alt'>> =
              IF screen_current = "normal"
              THEN <<pushLine(screen_normal, DCSRest, terminal.IRM), screen_alt>>
              ELSE <<screen_normal, pushLine(screen_alt, DCSRest, terminal.IRM)>>]_vars

\* the next fragment is the last of its chunk and is a CSI sequence without
\* its final byte: nothing, or "[" and parameter characters
AtIncompleteCSI ==
    /\ pc = "slices" /\ Len(escapeGenerator) = 1
    /\ LET f == Head(escapeGenerator)
       IN  \/ f = <<>>
           \/ /\ f[1] = "["
              /\ \A i \in 2..Len(f) : f[i] \in Digits \cup {";", "?"}

\* C28: a CSI sequence cut by the end of a chunk before its final byte
\* changes nothing then, and is kept; once the rest has come, the sequence
\* has been applied once, with the parameters of the unsplit sequence.
C28_SplitCSI ==
    /\ [][(AtIncompleteCSI /\ TakesFragment) =>
            /\ Observable(Decoder)' = Observable(Decoder)
            /\ leftUnhandled' = <<ESC>> \o Head(escapeGenerator)
            /\ exc' = ""]_vars
    /\ [](AllDecoded => Observable(Decoder) = Observable(DecodeWhole(shell.out)))

\* x ESC[1;31m r was read as x ESC[1 and ;31m r, and r is in the buffer in
\* bold red
C28_Witness ==
    /\ AllDecoded
    /\ shell.out = <<"x", ESC, "[", "1", ";", "3", "1", "m", "r">>
    /\ out = <<";", "3", "1", "m", "r">>
    /\ Len(screen_normal.log) = 2
    /\ screen_normal.color.mod = {"BOLD"}

----------------------------------------------------------------------------
(* Order of effects within a chunk *)

\* what pushLine(text, irm) adds to a buffer whose pending color is color
TextEntries(text, irm, color) ==
    [i \in 1..Len(text) |-> Entry("text", text[i], 0, 0, irm, color)]

\* the plain text a fragment ends with
RECURSIVE TextSuffix(_)
TextSuffix(f) ==
    IF f = <<>> \/ f[Len(f)] \notin PlainText THEN <<>>
    ELSE TextSuffix(SubSeq(f, 1, Len(f) - 1)) \o <<f[Len(f)]>>

\* loop() takes a chunk from the generator
TakesChunk == pc = "woke" /\ pc' = "slices"

\* the step resolves an escape and goes on with the chunk
ResolvesEscape ==
    TakesFragment /\ leftUnhandled' = <<>> /\ pc' = "slices"

\* the buffer that is current after the step, as it was before the step
BufferBefore ==
    IF screen_current' = "normal" THEN screen_normal ELSE screen_alt

\* the text before the first ESC goes to the current buffer, under the flag
\* and color of that moment, and no fragment has been taken yet
FirstTextPushed ==
    LET sout == Split(leftUnhandled \o out', ESC)
        scr  == CurScreen(Decoder)
    IN  /\ screen_current' = screen_current
        /\ CurScreen(Decoder)'.log =
               scr.log \o TextEntries(sout[1], terminal.IRM, scr.color)
        /\ escapeGenerator' = Tail(sout)

\* the buffer that is current after the action got at most one control
\* entry and then the text of the fragment, under the flag and color that
\* hold after the action; the other buffer got nothing
ActionThenText ==
    LET n   == Len(escapeGenerator) - Len(escapeGenerator')
        rem == TextSuffix(escapeGenerator[n])
        new == CurScreen(Decoder)'
        old == BufferBefore
        k   == Len(new.log) - Len(old.log) - Len(rem)
    IN  /\ k \in {0, 1}
        /\ SubSeq(new.log, 1, Len(old.log)) = old.log
        /\ k = 1 => new.log[Len(old.log) + 1].k # "text"
        /\ SubSeq(new.log, Len(old.log) + k + 1, Len(new.log)) =
               TextEntries(rem, terminal'.IRM, new.color)
        /\ IF screen_current' = "normal"
           THEN screen_alt'.log = screen_alt.log
           ELSE screen_normal'.log = screen_normal.log

\* C29: text and control actions take effect in stream order: the text
\* before the first ESC is pushed before any fragment is taken, and each
\* resolved escape is applied and then the text that follows it is pushed to
\* the buffer then current, under the insert flag and color then in force,
\* before the next fragment is taken.
C29_StreamOrder ==
    [][/\ TakesChunk => FirstTextPushed
       /\ ResolvesEscape => ActionThenText]_vars

\* a ESC[4h b ESC[?1049h c came in one chunk: a replaced, b inserted, both in
\* the normal buffer, and c inserted in the alternate buffer
C29_Witness ==
    /\ AllDecoded
    /\ out = shell.out
    /\ out = <<"a", ESC, "[", "4", "h", "b">>
               \o DECSequence(<<"1", "0", "4", "9">>, "h") \o <<"c">>
    /\ screen_normal.log = TextEntries(<<"a">>, FALSE, RST)
                             \o TextEntries(<<"b">>, TRUE, RST)
    /\ screen_alt.log = TextEntries(<<"c">>, TRUE, RST)

----------------------------------------------------------------------------
(* Parameters of the generic CSI functions *)

\* the first parameter a handler is to receive: the number printed, and
\* where none is printed 0 for the erase functions and 1 for the others
ExpectedPs(p, fn) ==
    IF p[2] # -1 THEN p[2] ELSE IF fn \in {"J", "K"} THEN 0 ELSE 1

\* the handler of fn was called once, with ps as its first argument: a
\* function of the buffers is the one entry of the current buffer; the
\* status report answers when ps is 5 or 6 and is silent otherwise
HandlerGot(fn, ps) ==
    /\ exc = ""
    /\ screen_alt.log = <<>>
    /\ IF fn \in ScreenCSI
       THEN /\ Len(screen_normal.log) = 1
            /\ screen_normal.log[1].k = "CSI"
            /\ screen_normal.log[1].c = fn
            /\ screen_normal.log[1].y = ps
       ELSE screen_normal.log = <<>>
    /\ IF fn = "n" /\ ps \in {5, 6}
       THEN Len(inout.wr) = 1
               /\ inout.wr[1].text[Len(inout.wr[1].text)] =
                      (IF ps = 6 THEN "R" ELSE "n")
       ELSE inout.wr = <<>>

\* C30: the handler of a generic CSI function receives as first parameter
\* the number that was printed, 0 included; where none was printed it
\* receives 1, except J and K, which receive 0.
C30_CSIDefaults ==
    AllDecoded =>
        \A p \in FirstParams, sec \in SecondParams, fn \in ParamFunctions :
            shell.out = ParamSequence(p[1], sec, fn) =>
                HandlerGot(fn, ExpectedPs(p, fn))

\* ESC[0A was decoded and the handler of A got 0
C30_Witness ==
    /\ AllDecoded
    /\ shell.out = <<ESC, "[", "0", "A">>
    /\ screen_normal.log = <<Entry("CSI", "A", 0, 1, FALSE, RST)>>

----------------------------------------------------------------------------
(* Device status report *)

\* the next fragment is a whole CSI Ps n
AtDSR ==
    /\ pc = "slices" /\ escapeGenerator # <<>>
    /\ Len(Head(escapeGenerator)) >= 2
    /\ Head(escapeGenerator)[1] = "["
    /\ Head(escapeGenerator)[Len(Head(escapeGenerator))] = "n"

\* the parameters of that report, as printed
DSRPrinted == SubSeq(Head(escapeGenerator), 2, Len(Head(escapeGenerator)) - 1)

\* what the report is to write: the position for Ps 6, row first and both
\* from 1, OK for Ps 5, nothing otherwise
DSRReply ==
    LET c == getCursor(CurScreen(Decoder))
    IN  IF DSRPrinted \in {<<"6">>, <<"6", ";", "2">>}
        THEN <<Written(<<ESC, "[">> \o ToStr(c[2] + 1) \o <<";">>
                          \o ToStr(c[1] + 1) \o <<"R">>, <<>>)>>
        ELSE IF DSRPrinted = <<"5">>
        THEN <<Written(<<ESC, "[", "0", "n">>, <<>>)>>
        ELSE <<>>

\* C31: CSI 6 n writes ESC [ row ; col R for the current buffer's cursor,
\* counted from 1; CSI 5 n writes ESC [ 0 n; any other or no parameter
\* writes nothing; the buffers and the choice of buffer are left as they are.
C31_DeviceStatusReport ==
    [][(AtDSR /\ TakesFragment) =>
          /\ inout'.wr = inout.wr \o DSRReply
          /\ screen_normal' = screen_normal
          /\ screen_alt' = screen_alt
          /\ screen_current' = screen_current
          /\ exc' = ""]_vars

\* ESC[3;5H a ESC[6n was decoded: the cursor is in row 3, column 6
C31_Witness ==
    /\ AllDecoded
    /\ shell.out = <<ESC, "[", "3", ";", "5", "H", "a", ESC, "[", "6", "n">>
    /\ inout.wr = <<Written(<<ESC, "[", "3", ";", "6", "R">>, <<>>)>>
    /\ Len(screen_normal.log) = 2

----------------------------------------------------------------------------
(* Extended color forms, 39 and 49 *)

\* the color c after one plain code: bold, underline, red foreground, or none
AfterPlain(c, code) ==
    CASE code = <<"1">> -> [c EXCEPT !.mod = @ \cup {"BOLD"}]
      [] code = <<"4">> -> [c EXCEPT !.mod = @ \cup {"UNDERLINE"}]
      [] code = <<"3", "1">> -> [c EXCEPT !.fg = ansiMap16(31)]
      [] OTHER -> c

\* the color c after the extended form f
AfterForm(c, f) ==
    IF f.part = "fg" THEN [c EXCEPT !.fg = f.color] ELSE [c EXCEPT !.bg = f.color]

\* C32: 38;5;n and 48;5;n take two further parameters and 38;2;r;g;b and
\* 48;2;r;g;b four, and set the foreground or the background; what precedes
\* and what follows them in the sequence is read as ordinary codes, in order.
C32_ExtendedForms ==
    [][(AtSGR /\ TakesFragment) =>
          \A lead \in {<<>>, <<"1">>}, f \in ExtendedForms, tail \in PlainCodes :
              Head(escapeGenerator) = Tail(ExtendedSequence(lead, f, tail)) =>
                  PendingColorNext =
                      AfterPlain(AfterForm(AfterPlain(
                          [PendingColor EXCEPT !.clean = FALSE], lead), f), tail)]_vars

\* ESC[38;5;1;4m was decoded: color 1 of 256 and underline, not bold
C32_Witness ==
    /\ AllDecoded
    /\ shell.out = <<ESC, "[", "3", "8", ";", "5", ";", "1", ";", "4", "m">>
    /\ PendingColor = TTkColor(ansiMap256(1), None, {"UNDERLINE"}, FALSE)

\* C33: ESC[39m puts the foreground back to the default and keeps the
\* background and the attribute bits; ESC[49m puts the background back and
\* keeps the foreground and the attribute bits.
C33_DefaultColors ==
    [][(AtSGR /\ TakesFragment) =>
          /\ SGRParameters = <<"3", "9">> =>
                 /\ PendingColorNext.fg = None
                 /\ PendingColorNext.bg = PendingColor.bg
                 /\ PendingColorNext.mod = PendingColor.mod
          /\ SGRParameters = <<"4", "9">> =>
                 /\ PendingColorNext.bg = None
                 /\ PendingColorNext.fg = PendingColor.fg
                 /\ PendingColorNext.mod = PendingColor.mod]_vars

\* ESC[39m was decoded on top of bold red on green: bold on green is left
C33_Witness ==
    /\ AllDecoded
    /\ shell.out = <<ESC, "[", "1", ";", "3", "1", ";", "4", "2", "m",
                     ESC, "[", "3", "9", "m">>
    /\ PendingColor = TTkColor(None, ansiMap16(42), {"BOLD"}, FALSE)

----------------------------------------------------------------------------
(* Keypad mode and standard modes *)

\* the next fragment is ESC = or ESC >, with or without text after it
AtKeypad ==
    /\ pc = "slices" /\ escapeGenerator # <<>>
    /\ Head(escapeGenerator) # <<>>
    /\ Head(escapeGenerator)[1] \in {"=", ">"}

\* the current buffer got the text and nothing else; the other buffer, the
\* choice of buffer, the pending colors and the dimensions are as they were
OnlyTextPushed(text) ==
    /\ screen_current' = screen_current
    /\ CurScreen(Decoder)' =
           [CurScreen(Decoder) EXCEPT !.log =
               @ \o TextEntries(text, terminal.IRM, CurScreen(Decoder).color)]
    /\ IF screen_current = "normal"
       THEN screen_alt' = screen_alt ELSE screen_normal' = screen_normal

\* C34: ESC = sets the application-keypad flag and ESC > clears it; the
\* other keyboard flags, the mouse flags, the terminal flags and the buffers
\* stay as they are, but for the text after the code, which is pushed.
C34_KeypadMode ==
    [][(AtKeypad /\ TakesFragment) =>
          /\ keyboard' = [keyboard EXCEPT !.flags =
                 IF Head(escapeGenerator)[1] = "="
                 THEN keyboard.flags \cup {"DECKPAM"}
                 ELSE keyboard.flags \ {"DECKPAM"}]
          /\ mouse' = mouse
          /\ terminal' = terminal
          /\ OnlyTextPushed(Tail(Head(escapeGenerator)))
          /\ inout'.wr = inout.wr
          /\ exc' = ""]_vars

\* ESC > a was decoded in cursor-key mode with the application keypad on:
\* the cursor-key bit is left, a is in the buffer
C34_Witness ==
    /\ AllDecoded
    /\ shell.out = DECSequence(<<"1">>, "h") \o <<ESC, "=", ESC, ">", "a">>
    /\ keyboard.flags = {"DECCKM"}
    /\ screen_normal.log = TextEntries(<<"a">>, FALSE, RST)

\* the step pushes text under the insert flag that holds after it and does
\* nothing else to the buffers, the keyboard, the mouse, the titles and the
\* replies, and the decoder goes on
ModeStepFrame(text) ==
    /\ screen_current' = screen_current
    /\ CurScreen(Decoder)' =
           [CurScreen(Decoder) EXCEPT !.log =
               @ \o TextEntries(text, terminal'.IRM, CurScreen(Decoder).color)]
    /\ IF screen_current = "normal"
       THEN screen_alt' = screen_alt ELSE screen_normal' = screen_normal
    /\ keyboard' = keyboard /\ mouse' = mouse
    /\ titleChanged' = titleChanged /\ inout'.wr = inout.wr
    /\ pc' = "slices" /\ exc' = "" /\ leftUnhandled' = <<>>

\* C35: CSI 4 h sets the insert flag and CSI 4 l clears it; any other
\* standard mode, and a DEC private mode the table does not hold, changes
\* nothing, and the decoder goes on.
C35_StandardModes ==
    [][(pc = "slices" /\ TakesFragment) =>
          \A hl \in {"h", "l"}, post \in { <<>>, <<"a">> } :
              /\ \A m \in StandardModes :
                     Head(escapeGenerator) = Tail(SMSequence(m[1], hl)) \o post =>
                         /\ terminal' = IF m[2] = 4
                                        THEN [terminal EXCEPT !.IRM = (hl = "h")]
                                        ELSE terminal
                         /\ ModeStepFrame(post)
              /\ \A ps \in UnknownPrivateModes :
                     Head(escapeGenerator) = Tail(DECSequence(ps, hl)) \o post =>
                         /\ terminal' = terminal
                         /\ ModeStepFrame(post)]_vars

\* ESC[4h ESC[34h a was decoded: mode 34 left the insert flag on, and a was
\* inserted
C35_Witness ==
    /\ AllDecoded
    /\ shell.out = <<ESC, "[", "4", "h", ESC, "[", "3", "4", "h", "a">>
    /\ terminal.IRM
    /\ screen_normal.log = TextEntries(<<"a">>, TRUE, RST)

----------------------------------------------------------------------------
(* Bytes that do not decode *)

\* the reader has woken up with bytes to read, and reads them
ReadsBytes ==
    /\ pc = "woke" /\ "quit" \notin rs /\ "inout" \in rs /\ ~inout.closed
    /\ pc' # "woke"

\* the positions of b that hold text: an ASCII byte, or an XC3 with its XA9
TextPositions(b) ==
    { i \in 1..Len(b) :
        \/ b[i] \notin {XC3, XA9}
        \/ b[i] = XC3 /\ i < Len(b) /\ b[i + 1] = XA9 }

\* the i-th smallest member of the set of numbers S
Nth(S, i) == CHOOSE n \in S : Cardinality({ m \in S : m < n }) = i - 1

\* the text of b: what its text positions hold, in order
TextOf(b) ==
    [i \in 1..Cardinality(TextPositions(b)) |->
        IF b[Nth(TextPositions(b), i)] = XC3 THEN EACUTE
        ELSE b[Nth(TextPositions(b), i)]]

\* C36: bytes that do not decode are dropped, the text around them is handed
\* to the decoder, and the reader goes on.
C36_LossyDecode ==
    [][ReadsBytes =>
          /\ out' = TextOf(inout.rd)
          /\ pc' = "slices"
          /\ exit' = exit /\ exc' = ""
          /\ inout'.rd = <<>>]_vars

\* a XA9 b was read in one piece, a and b are in the buffer and the reader is
\* back in select()
C36_Witness ==
    /\ AllDecoded
    /\ pc = "select"
    /\ shell.out = <<"a", XA9, "b">>
    /\ out = <<"a", "b">>
    /\ screen_normal.log = TextEntries(<<"a", "b">>, FALSE, RST)

----------------------------------------------------------------------------
(* Resize requests *)

\* the reader has applied the one resize request there is and is back in
\* select(), with no quit request and nothing to read from the PTY
AppliedTheOnlyRequest ==
    /\ AppliesResize
    /\ resize_pipe = 1 /\ resize_pipe' = 1
    /\ pc' = "select"
    /\ quit_pipe' <= 0
    /\ inout'.rd = <<>> /\ ~inout'.closed

\* C37: a resize request is consumed when the reader applies it: once the
\* only request has been applied, and with no quit request and no PTY
\* output, select() has nothing to return.
C37_ResizeConsumed ==
    [][AppliedTheOnlyRequest => Ready' = {}]_vars

----------------------------------------------------------------------------
(* Writes to the PTY *)

\* the texts of the whole messages of the keyboard and of paste
KeyAndPasteMessages ==
    { e.code : e \in KeyEvents } \cup { DECCKMCode(k) : k \in CursorKeys }
    \cup PasteTexts
    \cup { <<ESC, "[", "2", "0", "0", "~">> \o t \o <<ESC, "[", "2", "0", "1", "~">> :
             t \in PasteTexts }

\* w is one whole message: an SGR mouse report, a legacy mouse report with
\* its two coordinate bytes, a key code or a paste, a position or status reply
WholeMessage(w) ==
    \/ /\ w.raw = <<>> /\ Len(w.text) >= 4
       /\ SubSeq(w.text, 1, 3) = <<ESC, "[", "<">>
       /\ w.text[Len(w.text)] \in {"M", "m"}
    \/ /\ Len(w.raw) = 2 /\ Len(w.text) = 4
       /\ SubSeq(w.text, 1, 3) = <<ESC, "[", "M">>
    \/ w.raw = <<>> /\ w.text \in KeyAndPasteMessages
    \/ /\ w.raw = <<>> /\ Len(w.text) >= 4
       /\ SubSeq(w.text, 1, 2) = <<ESC, "[">>
       /\ w.text[Len(w.text)] \in {"R", "n"}
       /\ \A i \in 3..(Len(w.text) - 1) : w.text[i] \in Digits \cup {";"}

\* C38: every message to the PTY is one write: a step of either thread makes
\* at most one write, after those already made, and every write is a whole
\* message.
C38_OneWritePerMessage ==
    /\ [][/\ Len(inout'.wr) <= Len(inout.wr) + 1
          /\ IsPrefix(inout.wr, inout'.wr)]_vars
    /\ [](\A i \in 1..Len(inout.wr) : WholeMessage(inout.wr[i]))

\* a bracketed paste was written by the UI thread before the reader's
\* position reply: two writes, each a whole message
C38_Witness ==
    /\ AllDecoded
    /\ inout.wr =
         <<Written(<<ESC, "[", "2", "0", "0", "~", "x", "y", ESC, "[", "2", "0", "1", "~">>,
                   <<>>),
           Written(<<ESC, "[", "1", ";", "1", "R">>, <<>>)>>

----------------------------------------------------------------------------
(* The pending color of the two buffers *)

\* C39: an SGR sequence computes the new color from the pending color of the
\* current buffer and sets it on both buffers; at any time the two buffers
\* hold the same pending color, whichever is current.
C39_SharedColor ==
    /\ [][(AtSGR /\ TakesFragment /\ exc' = "") =>
             /\ screen_normal'.color = SGRColor(SGRParameters, PendingColor).color
             /\ screen_alt'.color = SGRColor(SGRParameters, PendingColor).color
             /\ screen_current' = screen_current]_vars
    /\ [](screen_normal.color = screen_alt.color)

\* ESC[39m was decoded with the alternate buffer current, on top of bold red
\* on green set while the normal buffer was: both buffers hold bold on green
C39_Witness ==
    /\ AllDecoded
    /\ screen_current = "alt"
    /\ shell.out = <<ESC, "[", "1", ";", "3", "1", ";", "4", "2", "m">>
                       \o DECSequence(<<"1", "0", "4", "9">>, "h")
                       \o <<ESC, "[", "3", "9", "m">>
    /\ screen_normal.color = TTkColor(None, ansiMap16(42), {"BOLD"}, FALSE)
    /\ screen_alt.color = TTkColor(None, ansiMap16(42), {"BOLD"}, FALSE)

----------------------------------------------------------------------------
(* The DCS accumulator *)

\* C40: while the reader runs, the decoder is between two fragments and
\* inside no DCS sequence (the DCS branch finds its terminator within the
\* step or ends the reader), and the DCS accumulator is empty: before any
\* DCS, after a DCS terminator, and while an OSC sequence is awaited.
C40_DCSstringEmpty ==
    exc = "" => terminal.DCSstring = <<>>

====
